---- MODULE Spec2Model ----
(***************************************************************************)
(* Model of the performance scripts of lean-effects:                       *)
(*   scripts/check-performance-regression.py  (PerformanceRegressionDetector)*)
(*   scripts/performance-comparison.py        (PerformanceComparator)      *)
(*   scripts/performance-gate.py              (PerformanceGateChecker)     *)
(*   scripts/performance-analysis.py          (PerformanceAnalyzer)        *)
(*                                                                         *)
(* Numbers.  Python computes the averages and the changes in binary        *)
(* floating point; the model computes them as exact rationals <<n, d>>     *)
(* in lowest terms with d > 0, so two equal values are equal tuples.       *)
(* Counts (len(...), successful_benchmarks, ...) are integers.             *)
(*                                                                         *)
(* JSON.  A parsed JSON value is a record tagged with its Python type:     *)
(*   [type |-> "list", v |-> <<e1, ..., ek>>]   a list of JSON values      *)
(*   [type |-> "dict", v |-> f]                 f a function on its keys   *)
(*   [type |-> "null"]                          None                       *)
(*   [type |-> "number", v |-> <<n, d>>]        a number                   *)
(*   [type |-> "string", v |-> "..."]           a string                   *)
(* isinstance(x, list) is x.type = "list"; d.get(k, default) is Get.       *)
(***************************************************************************)
EXTENDS Integers, Sequences, FiniteSets, TLC

VARIABLES
    pc,                \* position of the running script
    prog,              \* which entry point runs
    thresholds,        \* RegressionThresholds / ComparisonThresholds of the run
    baseline_data,     \* what load_baseline returned (NoData: None)
    current_data,      \* what load_current returned (NoData: None)
    baseline_metrics,  \* extract_metrics(baseline_data) in main
    current_metrics,   \* extract_metrics(current_data) in main
    result,            \* the RegressionResult / ComparisonResult
    gate,              \* PerformanceGate of the run
    summary,           \* what load_summary returned (NoData: None)
    gate_passed,       \* what check_gate returned
    gate_output,       \* the FAIL lines check_gate printed, in order
    exit_code,         \* the argument of sys.exit (-1: still running)
    results,           \* PerformanceAnalyzer.results
    baseline_results,  \* PerformanceAnalyzer.baseline_results
    summary_file,      \* performance-summary.json in the output directory
    stdout             \* the status lines the run has printed, in order

vars == <<pc, prog, thresholds, baseline_data, current_data, baseline_metrics,
          current_metrics, result, gate, summary, gate_passed, gate_output,
          exit_code, results, baseline_results, summary_file, stdout>>

----------------------------------------------------------------------------
(* Bounds of the model *)

\* longest list of benchmark records drawn as an input
MaxLen == 3

----------------------------------------------------------------------------
(* Exact rational arithmetic (Python float arithmetic without rounding) *)

Abs(i) == IF i < 0 THEN -i ELSE i

RECURSIVE GCD(_, _)
GCD(a, b) == IF b = 0 THEN a ELSE GCD(b, a % b)

\* the rational n/d (d # 0) in lowest terms with a positive denominator
Rat(n, d) ==
    LET g == GCD(Abs(n), Abs(d))
        s == IF d < 0 THEN -1 ELSE 1
    IN  <<(s * n) \div g, (s * d) \div g>>

I2R(i) == <<i, 1>>
Zero == <<0, 1>>
One == <<1, 1>>

RAdd(a, b) == Rat(a[1] * b[2] + b[1] * a[2], a[2] * b[2])
RSub(a, b) == Rat(a[1] * b[2] - b[1] * a[2], a[2] * b[2])
RMul(a, b) == Rat(a[1] * b[1], a[2] * b[2])
RDiv(a, b) == Rat(a[1] * b[2], a[2] * b[1])
RGt(a, b) == a[1] * b[2] > b[1] * a[2]
RLe(a, b) == a[1] * b[2] <= b[1] * a[2]

RECURSIVE SumSeq(_)
SumSeq(s) == IF s = <<>> THEN 0 ELSE Head(s) + SumSeq(Tail(s))

Max(a, b) == IF a >= b THEN a ELSE b

\* statistics.mean of a non-empty list of integers
mean(xs) == Rat(SumSeq(xs), Len(xs))

----------------------------------------------------------------------------
(* Parsed JSON values *)

NoData == [type |-> "None"]
Null == [type |-> "null"]
EmptyMap == [k \in {} |-> 0]
Dict(f) == [type |-> "dict", v |-> f]
List(s) == [type |-> "list", v |-> s]
Number(r) == [type |-> "number", v |-> r]
Str(s) == [type |-> "string", v |-> s]

\* x is None: what a loader returns for a file it cannot read, and what
\* json.load returns for a file that holds the JSON value null
IsNone(x) == x.type \in {"None", "null"}

\* dict.get(k, default)
Get(d, k, default) == IF k \in DOMAIN d.v THEN d.v[k] ELSE default

\* bytes per MB: the divisor 1024 * 1024 of the memory average
BytesPerMB == 1048576

----------------------------------------------------------------------------
(* MetricsExtractor: PerformanceRegressionDetector.extract_metrics *)

\* IsSuccessful with a record that has no success key counted as successful
IsSuccessful_MissingIsSuccess(r) == Get(r, "success", TRUE)

\* r.get("success", False), the filter of successful_results
IsSuccessful(r) == Get(r, "success", FALSE)

\* not r.get("success", False), the filter of failed_results
IsFailed(r) == ~Get(r, "success", FALSE)

\* ExecutionTimeOf with -1 for a record that has no executionTime
ExecutionTimeOf_MissingIsUnknown(r) ==
    Get(Get(r, "metrics", Dict(EmptyMap)), "executionTime", -1)

\* r.get("metrics", {}).get("executionTime", 0)
ExecutionTimeOf(r) == Get(Get(r, "metrics", Dict(EmptyMap)), "executionTime", 0)

\* r.get("metrics", {}).get("memoryUsage", 0)
MemoryUsageOf(r) == Get(Get(r, "metrics", Dict(EmptyMap)), "memoryUsage", 0)

\* ExtractFromList with the all-failure sentinel reporting a failure rate of 0.0
ExtractFromList_ZeroRateSentinel(data) ==
    LET successful_results == SelectSeq(data, IsSuccessful)
    IN  IF successful_results = <<>>
        THEN <<Zero, Zero, Zero, 0, Len(data)>>
        ELSE <<mean([i \in 1..Len(successful_results) |->
                         ExecutionTimeOf(successful_results[i])]),
               RDiv(mean([i \in 1..Len(successful_results) |->
                              MemoryUsageOf(successful_results[i])]),
                    I2R(BytesPerMB)),
               Rat(Len(data) - Len(successful_results), Len(data)),
               Len(successful_results), Len(data)>>

\* ExtractFromList with the two averages taken over every record of the list
ExtractFromList_AllRecords(data) ==
    LET successful_results == SelectSeq(data, IsSuccessful)
    IN  IF successful_results = <<>>
        THEN <<Zero, Zero, One, 0, Len(data)>>
        ELSE <<mean([i \in 1..Len(data) |-> ExecutionTimeOf(data[i])]),
               RDiv(mean([i \in 1..Len(data) |-> MemoryUsageOf(data[i])]),
                    I2R(BytesPerMB)),
               Rat(Len(data) - Len(successful_results), Len(data)),
               Len(successful_results), Len(data)>>

\* ExtractFromList with the time of the first successful record in place of
\* the mean
ExtractFromList_FirstRecordTime(data) ==
    LET successful_results == SelectSeq(data, IsSuccessful)
    IN  IF successful_results = <<>>
        THEN <<Zero, Zero, One, 0, Len(data)>>
        ELSE <<I2R(ExecutionTimeOf(successful_results[1])),
               RDiv(mean([i \in 1..Len(successful_results) |->
                              MemoryUsageOf(successful_results[i])]),
                    I2R(BytesPerMB)),
               Rat(Len(data) - Len(successful_results), Len(data)),
               Len(successful_results), Len(data)>>

\* the branch isinstance(data, list)
ExtractFromList(data) ==
    LET successful_results == SelectSeq(data, IsSuccessful)
        failed_results == SelectSeq(data, IsFailed)
    IN  IF successful_results = <<>>
        THEN <<Zero, Zero, One, 0, Len(data)>>
        ELSE LET execution_times ==
                     [i \in 1..Len(successful_results) |->
                          ExecutionTimeOf(successful_results[i])]
                 memory_usage ==
                     [i \in 1..Len(successful_results) |->
                          MemoryUsageOf(successful_results[i])]
                 avg_execution_time ==
                     IF execution_times # <<>> THEN mean(execution_times) ELSE Zero
                 avg_memory_usage ==
                     IF memory_usage # <<>>
                     THEN RDiv(mean(memory_usage), I2R(BytesPerMB))
                     ELSE Zero
                 failure_rate ==
                     IF data # <<>> THEN Rat(Len(failed_results), Len(data)) ELSE Zero
             IN  <<avg_execution_time, avg_memory_usage, failure_rate,
                   Len(successful_results), Len(data)>>

\* ExtractFromSummary with the division guarded by a test instead of max(total, 1)
ExtractFromSummary_GuardedRate(data) ==
    <<Get(data, "avg_execution_time", Zero),
      Get(data, "memory_usage", Zero),
      IF Get(data, "total_benchmarks", 0) > 0
      THEN Rat(Get(data, "failed_benchmarks", 0), Get(data, "total_benchmarks", 0))
      ELSE Zero,
      Get(data, "successful_benchmarks", 0),
      Get(data, "total_benchmarks", 0)>>

\* the branch isinstance(data, dict): the summary format
ExtractFromSummary(data) ==
    <<Get(data, "avg_execution_time", Zero),
      Get(data, "memory_usage", Zero),
      Rat(Get(data, "failed_benchmarks", 0),
          Max(Get(data, "total_benchmarks", 1), 1)),
      Get(data, "successful_benchmarks", 0),
      Get(data, "total_benchmarks", 0)>>

\* extract_metrics with a value that is neither a list nor a mapping read as a
\* run whose every benchmark failed
extract_metrics_ScalarAsAllFailed(data) ==
    IF data.type = "list" THEN ExtractFromList(data.v)
    ELSE IF data.type = "dict" THEN ExtractFromSummary(data)
    ELSE <<Zero, Zero, One, 0, 0>>

\* the value of a call that returns
extract_metrics(data) ==
    IF data.type = "list" THEN ExtractFromList(data.v)
    ELSE IF data.type = "dict" THEN ExtractFromSummary(data)
    ELSE <<Zero, Zero, Zero, 0, 0>>

\* what a call that raises leaves in place of a value
AttributeError == [raised |-> "AttributeError"]

\* x.get(...) is defined on mappings only: on any other value the attribute
\* lookup raises AttributeError
HasGet(x) == x.type = "dict"

\* the call raises: r.get("success", False) on an element that is not a mapping
\* or, for a successful element, .get("executionTime", 0) on a metrics value
\* that is not a mapping
extract_metrics_raises(data) ==
    /\ data.type = "list"
    /\ IF \E i \in 1..Len(data.v) : ~HasGet(data.v[i])
       THEN TRUE
       ELSE \E i \in 1..Len(data.v) :
                /\ IsSuccessful(data.v[i])
                /\ ~HasGet(Get(data.v[i], "metrics", Dict(EmptyMap)))

----------------------------------------------------------------------------
(* MetricsExtractor: PerformanceComparator.extract_metrics (the copy) *)

ComparatorExtractFromList(data) ==
    LET successful_results == SelectSeq(data, IsSuccessful)
        failed_results == SelectSeq(data, IsFailed)
    IN  IF successful_results = <<>>
        THEN <<Zero, Zero, One, 0, Len(data)>>
        ELSE LET execution_times ==
                     [i \in 1..Len(successful_results) |->
                          ExecutionTimeOf(successful_results[i])]
                 memory_usage ==
                     [i \in 1..Len(successful_results) |->
                          MemoryUsageOf(successful_results[i])]
                 avg_execution_time ==
                     IF execution_times # <<>> THEN mean(execution_times) ELSE Zero
                 avg_memory_usage ==
                     IF memory_usage # <<>>
                     THEN RDiv(mean(memory_usage), I2R(BytesPerMB))
                     ELSE Zero
                 failure_rate ==
                     IF data # <<>> THEN Rat(Len(failed_results), Len(data)) ELSE Zero
             IN  <<avg_execution_time, avg_memory_usage, failure_rate,
                   Len(successful_results), Len(data)>>

ComparatorExtractFromSummary(data) ==
    <<Get(data, "avg_execution_time", Zero),
      Get(data, "memory_usage", Zero),
      Rat(Get(data, "failed_benchmarks", 0),
          Max(Get(data, "total_benchmarks", 1), 1)),
      Get(data, "successful_benchmarks", 0),
      Get(data, "total_benchmarks", 0)>>

Comparator_extract_metrics(data) ==
    IF data.type = "list" THEN ComparatorExtractFromList(data.v)
    ELSE IF data.type = "dict" THEN ComparatorExtractFromSummary(data)
    ELSE <<Zero, Zero, Zero, 0, 0>>

Comparator_extract_metrics_raises(data) ==
    /\ data.type = "list"
    /\ IF \E i \in 1..Len(data.v) : ~HasGet(data.v[i])
       THEN TRUE
       ELSE \E i \in 1..Len(data.v) :
                /\ IsSuccessful(data.v[i])
                /\ ~HasGet(Get(data.v[i], "metrics", Dict(EmptyMap)))

\* the fields of a metrics tuple, in the order of the return statement
MTime(m) == m[1]
MMemory(m) == m[2]
MFailureRate(m) == m[3]
MSuccessful(m) == m[4]
MTotal(m) == m[5]

----------------------------------------------------------------------------
(* Inputs: the benchmark records and summaries the runs are drawn from *)

MB(k) == k * BytesPerMB

\* one element of a raw benchmark array
Bench(success, time, memory) ==
    Dict([success |-> success,
          metrics |-> Dict([executionTime |-> time, memoryUsage |-> memory])])

\* elements that lack keys: no success key, no metrics key, metrics lacking a field
BenchNoSuccess(time, memory) ==
    Dict([metrics |-> Dict([executionTime |-> time, memoryUsage |-> memory])])
BenchNoMetrics(success) == Dict([success |-> success])
BenchTimeOnly(success, time) ==
    Dict([success |-> success, metrics |-> Dict([executionTime |-> time])])

\* the lists of length 0..n over the elements S
RECURSIVE ListsUpTo(_, _)
ListsUpTo(S, n) ==
    IF n = 0 THEN {<<>>}
    ELSE LET shorter == ListsUpTo(S, n - 1)
         IN  shorter \cup {Append(s, e) : s \in {t \in shorter : Len(t) = n - 1}, e \in S}

\* the elements the extraction is exercised on
ExtractElements ==
    {Bench(s, t, m) : s \in BOOLEAN, t \in {100, 130}, m \in {MB(20), MB(23)}}
    \cup {BenchNoSuccess(100, MB(20)), BenchNoMetrics(TRUE), BenchNoMetrics(FALSE),
          BenchTimeOnly(TRUE, 130)}

\* the summaries the extraction is exercised on: every subset of the five fields,
\* with counts that agree and counts that do not (failed or successful > total)
SummaryFields ==
    {"avg_execution_time", "memory_usage", "failed_benchmarks",
     "successful_benchmarks", "total_benchmarks"}

FullExtractSummaries ==
    [avg_execution_time : {<<215, 2>>},
     memory_usage : {<<43, 2>>},
     failed_benchmarks : {0, 1, 5},
     successful_benchmarks : {2, 7},
     total_benchmarks : {0, 3}]

\* the mapping f cut down to the keys given
Restrict(f, keys) == [k \in keys |-> f[k]]

ExtractSummaries ==
    {Dict(Restrict(f, keys)) : f \in FullExtractSummaries, keys \in SUBSET SummaryFields}

\* a successful element whose metrics value is null
BenchNullMetrics == Dict([success |-> TRUE, metrics |-> Null])

\* elements that are not benchmark records: a number, a string, null, and a
\* record with a null metrics value
MalformedElements == {Number(<<7, 1>>), Str("n/a"), Null, BenchNullMetrics}

\* the lists that hold at least one such element, alone or among good records
MalformedLists ==
    {List(s) : s \in {t \in ListsUpTo(MalformedElements \cup {Bench(TRUE, 100, MB(20))},
                                      MaxLen) :
                         \E i \in 1..Len(t) : t[i] \in MalformedElements}}

ExtractInputs ==
    {List(s) : s \in ListsUpTo(ExtractElements, MaxLen)}
    \cup ExtractSummaries
    \cup {Null, Number(<<42, 1>>), Str("n/a")}
    \cup MalformedLists

----------------------------------------------------------------------------
(* Formatting of the recommendation strings *)

\* r rounded to a whole number of units 1/scale (ties to even): the digits that
\* the format specs :.1f (scale 10) and :.1% (scale 1000) print
RoundScaled(r, scale) ==
    LET n == r[1] * scale
        d == r[2]
        q == n \div d
        rem == n % d
    IN  IF 2 * rem > d THEN q + 1
        ELSE IF 2 * rem < d THEN q
        ELSE IF q % 2 = 0 THEN q ELSE q + 1

\* f"{x:.1f}": x in tenths
Fmt1f(x) == RoundScaled(x, 10)

\* f"{x:.1%}": x in tenths of a percent
Fmt1pct(x) == RoundScaled(x, 1000)

\* f"Insufficient successful benchmarks: {current_successful} < {min_benchmarks}"
InsufficientMsg(current_successful, min_benchmarks) ==
    <<"Insufficient successful benchmarks: ", current_successful, " < ", min_benchmarks>>

\* f"Execution time increased by {change:.1f}% (threshold: {threshold}%)"
TimeMsg(change, threshold) ==
    <<"Execution time increased by ", Fmt1f(change), "% (threshold: ", threshold, "%)">>

\* f"Memory usage increased by {change:.1f}% (threshold: {threshold}%)"
MemoryMsg(change, threshold) ==
    <<"Memory usage increased by ", Fmt1f(change), "% (threshold: ", threshold, "%)">>

\* f"Failure rate increased by {change:.1%} (threshold: {threshold}%)"
FailureRateMsg(change, threshold) ==
    <<"Failure rate increased by ", Fmt1pct(change), " (threshold: ", threshold, "%)">>

NoRegressionMsg == <<"No significant performance regression detected">>

----------------------------------------------------------------------------
(* RegressionDetector: PerformanceRegressionDetector.detect_regression *)

\* RelativeChange with a zero baseline counted as a 100% increase
RelativeChange_ZeroBaselineIsIncrease(baseline, current) ==
    IF RGt(baseline, Zero)
    THEN RMul(RDiv(RSub(current, baseline), baseline), I2R(100))
    ELSE IF RGt(current, Zero) THEN I2R(100) ELSE Zero

\* (current - baseline) / baseline * 100 if baseline > 0, else the initial 0.0
RelativeChange(baseline, current) ==
    IF RGt(baseline, Zero)
    THEN RMul(RDiv(RSub(current, baseline), baseline), I2R(100))
    ELSE Zero

\* ExceedsThreshold with >= in place of >
ExceedsThreshold_OrEqual(change, threshold) == ~RGt(threshold, change)

\* change > threshold, the test of each of the three regression flags
ExceedsThreshold(change, threshold) == RGt(change, threshold)

\* HasRegression without the failure-rate flag
HasRegression_NoFailureRate(time_flag, memory_flag, failure_flag) ==
    time_flag \/ memory_flag

\* execution_time_regression or memory_regression or failure_rate_regression
HasRegression(time_flag, memory_flag, failure_flag) ==
    time_flag \/ memory_flag \/ failure_flag

\* InsufficientData with every piece of the run counted, not only the successful
InsufficientData_CountsTotal(th, current_m) == current_m[5] < th.min_benchmarks

\* current_successful < self.thresholds.min_benchmarks
InsufficientData(th, current_m) == current_m[4] < th.min_benchmarks

\* Recommendations with the memory message appended before the time message
Recommendations_MemoryFirst(th, changes, flags) ==
    (IF flags[2] THEN <<MemoryMsg(changes[2], th.memory_usage_percent)>> ELSE <<>>)
    \o (IF flags[1] THEN <<TimeMsg(changes[1], th.execution_time_percent)>> ELSE <<>>)
    \o (IF flags[3]
        THEN <<FailureRateMsg(changes[3], th.failure_rate_increase)>>
        ELSE <<>>)
    \o (IF ~flags[4] THEN <<NoRegressionMsg>> ELSE <<>>)

\* the recommendations list, appended in the order of the code; changes is
\* (time, memory, failure rate), flags the three regressions and has_regression
Recommendations(th, changes, flags) ==
    (IF flags[1] THEN <<TimeMsg(changes[1], th.execution_time_percent)>> ELSE <<>>)
    \o (IF flags[2] THEN <<MemoryMsg(changes[2], th.memory_usage_percent)>> ELSE <<>>)
    \o (IF flags[3]
        THEN <<FailureRateMsg(changes[3], th.failure_rate_increase)>>
        ELSE <<>>)
    \o (IF ~flags[4] THEN <<NoRegressionMsg>> ELSE <<>>)

detect_regression(th, baseline, current) ==
    LET baseline_m == extract_metrics(baseline)
        current_m == extract_metrics(current)
        baseline_time == baseline_m[1]
        baseline_memory == baseline_m[2]
        baseline_failure_rate == baseline_m[3]
        current_time == current_m[1]
        current_memory == current_m[2]
        current_failure_rate == current_m[3]
        current_successful == current_m[4]
    IN  IF InsufficientData(th, current_m)
        THEN [has_regression |-> TRUE,
              execution_time_regression |-> FALSE,
              memory_regression |-> FALSE,
              failure_rate_regression |-> FALSE,
              execution_time_change |-> Zero,
              memory_change |-> Zero,
              failure_rate_change |-> Zero,
              recommendations |->
                  <<InsufficientMsg(current_successful, th.min_benchmarks)>>]
        ELSE
        LET execution_time_change == RelativeChange(baseline_time, current_time)
            memory_change == RelativeChange(baseline_memory, current_memory)
            failure_rate_change == RSub(current_failure_rate, baseline_failure_rate)
            execution_time_regression ==
                ExceedsThreshold(execution_time_change, th.execution_time_percent)
            memory_regression ==
                ExceedsThreshold(memory_change, th.memory_usage_percent)
            failure_rate_regression ==
                ExceedsThreshold(failure_rate_change,
                                 RDiv(th.failure_rate_increase, I2R(100)))
            has_regression ==
                HasRegression(execution_time_regression, memory_regression,
                              failure_rate_regression)
        IN  [has_regression |-> has_regression,
             execution_time_regression |-> execution_time_regression,
             memory_regression |-> memory_regression,
             failure_rate_regression |-> failure_rate_regression,
             execution_time_change |-> execution_time_change,
             memory_change |-> memory_change,
             failure_rate_change |-> failure_rate_change,
             recommendations |->
                 Recommendations(th,
                     <<execution_time_change, memory_change, failure_rate_change>>,
                     <<execution_time_regression, memory_regression,
                       failure_rate_regression, has_regression>>)]

----------------------------------------------------------------------------
(* RegressionDetector: PerformanceComparator.compare_performance (the copy) *)

ComparatorRelativeChange(baseline, current) ==
    IF RGt(baseline, Zero)
    THEN RMul(RDiv(RSub(current, baseline), baseline), I2R(100))
    ELSE Zero

\* ComparatorExceedsThreshold with >= in place of >
ComparatorExceedsThreshold_OrEqual(change, threshold) == ~RGt(threshold, change)

\* change > threshold, in the copy
ComparatorExceedsThreshold(change, threshold) == RGt(change, threshold)

ComparatorHasRegression(time_flag, memory_flag, failure_flag) ==
    time_flag \/ memory_flag \/ failure_flag

ComparatorInsufficientData(th, current_m) == current_m[4] < th.min_benchmarks

ComparatorRecommendations(th, changes, flags) ==
    (IF flags[1] THEN <<TimeMsg(changes[1], th.execution_time_percent)>> ELSE <<>>)
    \o (IF flags[2] THEN <<MemoryMsg(changes[2], th.memory_usage_percent)>> ELSE <<>>)
    \o (IF flags[3]
        THEN <<FailureRateMsg(changes[3], th.failure_rate_increase)>>
        ELSE <<>>)
    \o (IF ~flags[4] THEN <<NoRegressionMsg>> ELSE <<>>)

compare_performance(th, baseline, current) ==
    LET baseline_m == Comparator_extract_metrics(baseline)
        current_m == Comparator_extract_metrics(current)
        baseline_time == baseline_m[1]
        baseline_memory == baseline_m[2]
        baseline_failure_rate == baseline_m[3]
        baseline_successful == baseline_m[4]
        baseline_total == baseline_m[5]
        current_time == current_m[1]
        current_memory == current_m[2]
        current_failure_rate == current_m[3]
        current_successful == current_m[4]
        current_total == current_m[5]
    IN  IF ComparatorInsufficientData(th, current_m)
        THEN [has_regression |-> TRUE,
              execution_time_change |-> Zero,
              memory_change |-> Zero,
              failure_rate_change |-> Zero,
              recommendations |->
                  <<InsufficientMsg(current_successful, th.min_benchmarks)>>,
              detailed_comparison |-> EmptyMap]
        ELSE
        LET execution_time_change == ComparatorRelativeChange(baseline_time, current_time)
            memory_change == ComparatorRelativeChange(baseline_memory, current_memory)
            failure_rate_change == RSub(current_failure_rate, baseline_failure_rate)
            execution_time_regression ==
                ComparatorExceedsThreshold(execution_time_change,
                                           th.execution_time_percent)
            memory_regression ==
                ComparatorExceedsThreshold(memory_change, th.memory_usage_percent)
            failure_rate_regression ==
                ComparatorExceedsThreshold(failure_rate_change,
                                           RDiv(th.failure_rate_increase, I2R(100)))
            has_regression ==
                ComparatorHasRegression(execution_time_regression, memory_regression,
                                        failure_rate_regression)
            detailed_comparison ==
                [baseline |-> [execution_time |-> baseline_time,
                               memory_usage |-> baseline_memory,
                               failure_rate |-> baseline_failure_rate,
                               successful_benchmarks |-> baseline_successful,
                               total_benchmarks |-> baseline_total],
                 current |-> [execution_time |-> current_time,
                              memory_usage |-> current_memory,
                              failure_rate |-> current_failure_rate,
                              successful_benchmarks |-> current_successful,
                              total_benchmarks |-> current_total],
                 changes |-> [execution_time_percent |-> execution_time_change,
                              memory_usage_percent |-> memory_change,
                              failure_rate_absolute |-> failure_rate_change],
                 regressions |-> [execution_time |-> execution_time_regression,
                                  memory_usage |-> memory_regression,
                                  failure_rate |-> failure_rate_regression]]
        IN  [has_regression |-> has_regression,
             execution_time_change |-> execution_time_change,
             memory_change |-> memory_change,
             failure_rate_change |-> failure_rate_change,
             recommendations |->
                 ComparatorRecommendations(th,
                     <<execution_time_change, memory_change, failure_rate_change>>,
                     <<execution_time_regression, memory_regression,
                       failure_rate_regression, has_regression>>),
             detailed_comparison |-> detailed_comparison]

----------------------------------------------------------------------------
(* GateChecker: PerformanceGateChecker.check_gate *)

\* check_gate without the final test of regression_detected
check_gate_IgnoresRegression(g, sm) ==
    IF RGt(Get(sm, "avg_execution_time", Zero), g.max_execution_time_ms)
    THEN [passed |-> FALSE, output |-> <<"FAIL: Execution time exceeds threshold">>]
    ELSE IF RGt(Get(sm, "memory_usage", Zero), g.max_memory_usage_mb)
    THEN [passed |-> FALSE, output |-> <<"FAIL: Memory usage exceeds threshold">>]
    ELSE IF /\ Get(sm, "total_benchmarks", 0) > 0
            /\ RGt(Rat(Get(sm, "failed_benchmarks", 0), Get(sm, "total_benchmarks", 0)),
                   g.max_failure_rate)
    THEN [passed |-> FALSE, output |-> <<"FAIL: Failure rate exceeds threshold">>]
    ELSE [passed |-> TRUE, output |-> <<>>]

\* check_gate with a value equal to its ceiling failing the check
check_gate_CeilingInclusive(g, sm) ==
    IF RLe(g.max_execution_time_ms, Get(sm, "avg_execution_time", Zero))
    THEN [passed |-> FALSE, output |-> <<"FAIL: Execution time exceeds threshold">>]
    ELSE IF RLe(g.max_memory_usage_mb, Get(sm, "memory_usage", Zero))
    THEN [passed |-> FALSE, output |-> <<"FAIL: Memory usage exceeds threshold">>]
    ELSE IF /\ Get(sm, "total_benchmarks", 0) > 0
            /\ RGt(Rat(Get(sm, "failed_benchmarks", 0), Get(sm, "total_benchmarks", 0)),
                   g.max_failure_rate)
    THEN [passed |-> FALSE, output |-> <<"FAIL: Failure rate exceeds threshold">>]
    ELSE IF Get(sm, "regression_detected", FALSE)
    THEN [passed |-> FALSE, output |-> <<"FAIL: Performance regression detected">>]
    ELSE [passed |-> TRUE, output |-> <<>>]

\* the value check_gate returns and its FAIL lines, in the order printed
check_gate(g, sm) ==
    IF RGt(Get(sm, "avg_execution_time", Zero), g.max_execution_time_ms)
    THEN [passed |-> FALSE, output |-> <<"FAIL: Execution time exceeds threshold">>]
    ELSE IF RGt(Get(sm, "memory_usage", Zero), g.max_memory_usage_mb)
    THEN [passed |-> FALSE, output |-> <<"FAIL: Memory usage exceeds threshold">>]
    ELSE
    LET total_benchmarks == Get(sm, "total_benchmarks", 0)
        failed_benchmarks == Get(sm, "failed_benchmarks", 0)
    IN  IF /\ total_benchmarks > 0
           /\ RGt(Rat(failed_benchmarks, total_benchmarks), g.max_failure_rate)
        THEN [passed |-> FALSE, output |-> <<"FAIL: Failure rate exceeds threshold">>]
        ELSE IF Get(sm, "regression_detected", FALSE)
        THEN [passed |-> FALSE, output |-> <<"FAIL: Performance regression detected">>]
        ELSE [passed |-> TRUE, output |-> <<>>]

----------------------------------------------------------------------------
(* PerformanceAnalyzer: the loaders and analyze_performance *)

\* the BenchmarkResult built from a list item that has a metrics mapping
BenchmarkResult(item) ==
    [execution_time |-> Get(item.v.metrics, "executionTime", 0),
     memory_usage |-> Get(item.v.metrics, "memoryUsage", 0),
     success |-> Get(item, "success", FALSE)]

\* the records the loop of _load_json_file appends: an item that is not a
\* mapping or has no "metrics" key is passed over; at an item whose metrics
\* value is not a mapping .get raises, the except clause prints a warning and
\* the items after it are never read
RECURSIVE LoadItems(_)
LoadItems(items) ==
    IF items = <<>> THEN <<>>
    ELSE LET item == Head(items)
         IN  IF item.type = "dict" /\ "metrics" \in DOMAIN item.v
             THEN IF HasGet(item.v.metrics)
                  THEN <<BenchmarkResult(item)>> \o LoadItems(Tail(items))
                  ELSE <<>>
             ELSE LoadItems(Tail(items))

\* _load_json_file and _load_baseline_file: only a list contributes records; a
\* file that is absent contributes none
load_json_file(data) == IF data.type = "list" THEN LoadItems(data.v) ELSE <<>>

\* [r for r in results if r.success] and its complement
SuccessOf(r) == r.success
FailureOf(r) == ~r.success

\* statistics.mean(r.execution_time for r in rs), rs not empty
MeanExecutionTime(rs) == mean([i \in 1..Len(rs) |-> rs[i].execution_time])

\* statistics.mean(r.memory_usage for r in rs) / (1024 * 1024), rs not empty
MeanMemoryMB(rs) ==
    RDiv(mean([i \in 1..Len(rs) |-> rs[i].memory_usage]), I2R(BytesPerMB))

\* f"{x:.2f}": x in hundredths
Fmt2f(x) == RoundScaled(x, 100)

AnalyzerTimeMsg(avg, threshold) ==
    <<"Average execution time ", Fmt2f(avg), "ms exceeds threshold ", threshold, "ms">>
AnalyzerMemoryMsg(avg, threshold) ==
    <<"Average memory usage ", Fmt2f(avg), "MB exceeds threshold ", threshold, "MB">>
AnalyzerFailedMsg(failed, max_failed) ==
    <<"Too many failed benchmarks: ", failed, " > ", max_failed>>
AnalyzerBaselineMsg(time_regression) ==
    <<"Execution time regression: ", Fmt2f(time_regression), "% increase from baseline">>

\* the baseline comparison is made: there are baseline records and one of them
\* succeeded
ComparesWithBaseline(baseline) ==
    baseline # <<>> /\ SelectSeq(baseline, SuccessOf) # <<>>

\* ((avg_execution_time - baseline_avg_time) / baseline_avg_time) * 100
TimeRegression(avg_execution_time, baseline) ==
    LET baseline_avg_time == MeanExecutionTime(SelectSeq(baseline, SuccessOf))
    IN  RMul(RDiv(RSub(avg_execution_time, baseline_avg_time), baseline_avg_time),
             I2R(100))

\* the call raises ZeroDivisionError: the baseline comparison is made and the
\* baseline average time is 0
analyze_performance_raises(th, rs, baseline) ==
    /\ rs # <<>>
    /\ SelectSeq(rs, SuccessOf) # <<>>
    /\ ComparesWithBaseline(baseline)
    /\ MeanExecutionTime(SelectSeq(baseline, SuccessOf)) = Zero

\* AnalyzerStatus with the failed records looked at before the regression
AnalyzerStatus_PartialFirst(regression_detected, failed) ==
    IF failed > 0 THEN "PARTIAL"
    ELSE IF regression_detected THEN "REGRESSION"
    ELSE "PASS"

\* the overall status of a run with a successful record
AnalyzerStatus(regression_detected, failed) ==
    IF regression_detected THEN "REGRESSION"
    ELSE IF failed > 0 THEN "PARTIAL"
    ELSE "PASS"

\* the PerformanceSummary of a call that returns
analyze_performance(th, rs, baseline) ==
    IF rs = <<>>
    THEN [status |-> "ERROR",
          avg_execution_time |-> Zero,
          memory_usage |-> Zero,
          regression_detected |-> FALSE,
          failed_benchmarks |-> 0,
          total_benchmarks |-> 0,
          recommendations |-> << <<"No benchmark results found">> >>]
    ELSE
    LET successful_results == SelectSeq(rs, SuccessOf)
        failed_results == SelectSeq(rs, FailureOf)
    IN  IF successful_results = <<>>
        THEN [status |-> "FAILED",
              avg_execution_time |-> Zero,
              memory_usage |-> Zero,
              regression_detected |-> TRUE,
              failed_benchmarks |-> Len(failed_results),
              total_benchmarks |-> Len(rs),
              recommendations |-> << <<"All benchmarks failed">> >>]
        ELSE
        LET avg_execution_time == MeanExecutionTime(successful_results)
            avg_memory_usage == MeanMemoryMB(successful_results)
            over_time == RGt(avg_execution_time, th.execution_time_ms)
            over_memory == RGt(avg_memory_usage, th.memory_usage_mb)
            over_failed == Len(failed_results) > th.max_failed_benchmarks
            over_baseline ==
                /\ ComparesWithBaseline(baseline)
                /\ RGt(TimeRegression(avg_execution_time, baseline),
                       th.regression_threshold_percent)
            regression_detected == over_time \/ over_memory \/ over_failed \/ over_baseline
        IN  [status |-> AnalyzerStatus(regression_detected, Len(failed_results)),
             avg_execution_time |-> avg_execution_time,
             memory_usage |-> avg_memory_usage,
             regression_detected |-> regression_detected,
             failed_benchmarks |-> Len(failed_results),
             total_benchmarks |-> Len(rs),
             recommendations |->
                 (IF over_time
                  THEN <<AnalyzerTimeMsg(avg_execution_time, th.execution_time_ms)>>
                  ELSE <<>>)
                 \o (IF over_memory
                     THEN <<AnalyzerMemoryMsg(avg_memory_usage, th.memory_usage_mb)>>
                     ELSE <<>>)
                 \o (IF over_failed
                     THEN <<AnalyzerFailedMsg(Len(failed_results),
                                              th.max_failed_benchmarks)>>
                     ELSE <<>>)
                 \o (IF over_baseline
                     THEN <<AnalyzerBaselineMsg(
                                TimeRegression(avg_execution_time, baseline))>>
                     ELSE <<>>)]

\* the mapping save_summary writes to performance-summary.json
SummaryData(sm, timestamp) ==
    Dict([status |-> sm.status,
          avg_execution_time |-> sm.avg_execution_time,
          memory_usage |-> sm.memory_usage,
          regression_detected |-> sm.regression_detected,
          failed_benchmarks |-> sm.failed_benchmarks,
          total_benchmarks |-> sm.total_benchmarks,
          recommendations |-> sm.recommendations,
          timestamp |-> timestamp])

----------------------------------------------------------------------------
(* Inputs of the scripts *)

\* longest baseline list drawn as an input
MaxBaseLen == 2

\* command-line thresholds: the defaults, and values that make ties and
\* negative thresholds happen
ThresholdArgs ==
    [execution_time_percent : {<<10, 1>>, <<-5, 1>>},
     memory_usage_percent : {<<15, 1>>, <<-5, 1>>},
     failure_rate_increase : {<<5, 1>>, <<50, 1>>},
     min_benchmarks : {1, 5}]

Summary(time, memory, failed, successful, total) ==
    Dict([avg_execution_time |-> time, memory_usage |-> memory,
          failed_benchmarks |-> failed, successful_benchmarks |-> successful,
          total_benchmarks |-> total])

CurrentElements ==
    {Bench(TRUE, 100, MB(20)), Bench(TRUE, 120, MB(26)), Bench(FALSE, 500, MB(90))}

CurrentSummaries ==
    {Summary(t, m, f, 20, 20) :
        t \in {<<110, 1>>, <<115, 1>>}, m \in {<<115, 2>>, <<60, 1>>}, f \in {1, 2}}
    \cup {Summary(<<105, 1>>, <<50, 1>>, 0, 20, 20), Summary(<<500, 1>>, <<50, 1>>, 0, 3, 3)}

\* what load_current returns: a parsed file, or None for a missing file
CurrentFiles ==
    {List(s) : s \in ListsUpTo(CurrentElements, MaxLen)}
    \cup CurrentSummaries
    \cup {Null, Number(<<42, 1>>), NoData}

BaselineElements == {Bench(TRUE, 100, MB(20)), Bench(FALSE, 500, MB(90))}

BaselineSummaries ==
    {Summary(<<100, 1>>, <<50, 1>>, 0, 20, 20),
     Summary(<<1000, 1>>, <<100, 1>>, 2, 18, 20),
     Summary(<<0, 1>>, <<0, 1>>, 0, 20, 20)}

\* what load_baseline returns: a parsed file, or None for a missing file
BaselineFiles ==
    {List(s) : s \in ListsUpTo(BaselineElements, MaxBaseLen)}
    \cup BaselineSummaries
    \cup {NoData}

\* command-line gates: the defaults, and a failure-rate ceiling of 0.02
GateArgs ==
    [max_execution_time_ms : {<<1000, 1>>},
     max_memory_usage_mb : {<<100, 1>>},
     max_failure_rate : {<<0, 1>>, <<1, 50>>}]

GateSummaryFields ==
    {"avg_execution_time", "memory_usage", "total_benchmarks", "failed_benchmarks",
     "regression_detected"}

FullGateSummaries ==
    [avg_execution_time : {<<1000, 1>>, <<1500, 1>>},
     memory_usage : {<<100, 1>>, <<150, 1>>},
     total_benchmarks : {0, 50},
     failed_benchmarks : {1, 3},
     regression_detected : BOOLEAN]

\* what load_summary returns: a parsed summary, or None for a missing file
SummaryFiles ==
    {Dict(Restrict(f, keys)) : f \in FullGateSummaries, keys \in SUBSET GateSummaryFields}
    \cup {Null, NoData}

\* the input directory of the analysis does not exist
NoDirectory == [type |-> "no directory"]

\* --threshold of the analysis: the default, and a lower one
AnalysisThresholdArgs == {<<10, 1>>, <<5, 1>>}

\* PerformanceThresholds with one failed benchmark allowed
PerformanceThresholds_AllowsOneFailure(threshold) ==
    [execution_time_ms |-> <<1000, 1>>,
     memory_usage_mb |-> <<100, 1>>,
     regression_threshold_percent |-> threshold,
     max_failed_benchmarks |-> 1]

\* PerformanceThresholds(regression_threshold_percent=args.threshold)
PerformanceThresholds(threshold) ==
    [execution_time_ms |-> <<1000, 1>>,
     memory_usage_mb |-> <<100, 1>>,
     regression_threshold_percent |-> threshold,
     max_failed_benchmarks |-> 0]

\* items of a result file of the analysis: records within and beyond the absolute
\* thresholds, a failed record, a record without metrics, a record whose metrics
\* is null
AnalysisElements ==
    {Bench(TRUE, 100, MB(20)), Bench(TRUE, 108, MB(20)), Bench(TRUE, 1500, MB(150)),
     Bench(FALSE, 500, MB(90)), BenchNoMetrics(TRUE), BenchNullMetrics}

\* the input directory: missing, without a result file (NoData), or with one
\* result file
AnalysisDirectories ==
    {List(s) : s \in ListsUpTo(AnalysisElements, MaxLen)}
    \cup {Summary(<<105, 1>>, <<50, 1>>, 0, 20, 20), NoData, NoDirectory}

\* baseline.json of the input directory: absent (NoData), or a list
AnalysisBaselines ==
    {List(<<Bench(TRUE, 100, MB(20))>>),
     List(<<Bench(TRUE, 0, MB(20))>>),
     List(<<Bench(FALSE, 100, MB(20))>>),
     List(<<>>),
     NoData}

\* pd.Timestamp.now().isoformat() at the time of save_summary
Timestamps == {"2026-01-01T00:00:00", "2026-01-02T00:00:00"}

----------------------------------------------------------------------------
(* The scripts: main of check-performance-regression.py ("regression"),     *)
(* of performance-comparison.py ("comparison"), of performance-gate.py      *)
(* ("gate"), of performance-analysis.py ("analysis")                        *)

Init ==
    /\ pc = "start"
    /\ prog \in {"regression", "comparison", "gate", "analysis"}
    /\ thresholds = NoData
    /\ baseline_data = NoData
    /\ current_data = NoData
    /\ baseline_metrics = NoData
    /\ current_metrics = NoData
    /\ result = NoData
    /\ gate = NoData
    /\ summary = NoData
    /\ gate_passed = FALSE
    /\ gate_output = <<>>
    /\ exit_code = -1
    /\ results = <<>>
    /\ baseline_results = <<>>
    /\ summary_file = NoData
    /\ stdout = <<>>

\* parse_args, the thresholds, load_baseline and load_current
LoadData ==
    /\ pc = "start"
    /\ prog \in {"regression", "comparison"}
    /\ thresholds' \in ThresholdArgs
    /\ baseline_data' \in BaselineFiles
    /\ current_data' \in CurrentFiles
    /\ stdout' = (IF baseline_data' = NoData
                  THEN <<"Warning: Baseline file not found">> ELSE <<>>)
                 \o (IF current_data' = NoData
                     THEN <<"Error: Current performance file not found">> ELSE <<>>)
    /\ pc' = "loaded"
    /\ UNCHANGED <<prog, baseline_metrics, current_metrics, result, gate, summary,
                   gate_passed, gate_output, exit_code,
                   results, baseline_results, summary_file>>

\* LoadFailed with the failed load reported in the words of a detected regression
LoadFailed_ReportsRegression ==
    /\ pc = "loaded"
    /\ prog \in {"regression", "comparison"}
    /\ IsNone(baseline_data) \/ IsNone(current_data)
    /\ stdout' = <<"Performance regression detected. Build will be rejected.">>
    /\ exit_code' = 1
    /\ pc' = "exited"
    /\ UNCHANGED <<prog, thresholds, baseline_data, current_data, baseline_metrics,
                   current_metrics, result, gate, summary, gate_passed, gate_output,
                   results, baseline_results, summary_file>>

\* if baseline_data is None or current_data is None: sys.exit(1)
LoadFailed ==
    /\ pc = "loaded"
    /\ prog \in {"regression", "comparison"}
    /\ IsNone(baseline_data) \/ IsNone(current_data)
    /\ stdout' = Append(stdout, "Error: Could not load performance data")
    /\ exit_code' = 1
    /\ pc' = "exited"
    /\ UNCHANGED <<prog, thresholds, baseline_data, current_data, baseline_metrics,
                   current_metrics, result, gate, summary, gate_passed, gate_output,
                   results, baseline_results, summary_file>>

\* regression: the two extract_metrics calls and print_comparison
PrintComparison ==
    /\ pc = "loaded"
    /\ prog = "regression"
    /\ ~IsNone(baseline_data) /\ ~IsNone(current_data)
    /\ baseline_metrics' = extract_metrics(baseline_data)
    /\ current_metrics' = extract_metrics(current_data)
    /\ pc' = "compared"
    /\ UNCHANGED <<prog, thresholds, baseline_data, current_data, result, gate,
                   summary, gate_passed, gate_output, exit_code,
                   results, baseline_results, summary_file, stdout>>

\* regression: result = detector.detect_regression(baseline_data, current_data)
DetectRegression ==
    /\ pc = "compared"
    /\ prog = "regression"
    /\ result' = detect_regression(thresholds, baseline_data, current_data)
    /\ pc' = "detected"
    /\ UNCHANGED <<prog, thresholds, baseline_data, current_data, baseline_metrics,
                   current_metrics, gate, summary, gate_passed, gate_output, exit_code,
                   results, baseline_results, summary_file, stdout>>

\* comparison: result = comparator.compare_performance(baseline_data, current_data)
ComparePerformance ==
    /\ pc = "loaded"
    /\ prog = "comparison"
    /\ ~IsNone(baseline_data) /\ ~IsNone(current_data)
    /\ result' = compare_performance(thresholds, baseline_data, current_data)
    /\ pc' = "compared"
    /\ UNCHANGED <<prog, thresholds, baseline_data, current_data, baseline_metrics,
                   current_metrics, gate, summary, gate_passed, gate_output, exit_code,
                   results, baseline_results, summary_file, stdout>>

\* comparison: generate_comparison_report; _create_comparison_charts reads
\* comparison["baseline"], a KeyError on an empty detailed_comparison, which
\* ends the script with a traceback and exit status 1
GenerateReport ==
    /\ pc = "compared"
    /\ prog = "comparison"
    /\ IF "baseline" \in DOMAIN result.detailed_comparison
       THEN pc' = "detected" /\ exit_code' = exit_code
       ELSE pc' = "raised" /\ exit_code' = 1
    /\ UNCHANGED <<prog, thresholds, baseline_data, current_data, baseline_metrics,
                   current_metrics, result, gate, summary, gate_passed, gate_output,
                   results, baseline_results, summary_file, stdout>>

\* the printed summary, then
\* if result.has_regression: sys.exit(1) else: sys.exit(0)
ExitOnResult ==
    /\ pc = "detected"
    /\ prog \in {"regression", "comparison"}
    /\ stdout' = stdout \o
                 (IF result.has_regression
                  THEN <<"Regression detected: True",
                         "Performance regression detected. Build will be rejected.">>
                  ELSE <<"Regression detected: False",
                         "No significant performance regression detected.">>)
    /\ exit_code' = IF result.has_regression THEN 1 ELSE 0
    /\ pc' = "exited"
    /\ UNCHANGED <<prog, thresholds, baseline_data, current_data, baseline_metrics,
                   current_metrics, result, gate, summary, gate_passed, gate_output,
                   results, baseline_results, summary_file>>

\* gate: parse_args, the gate and load_summary
LoadSummary ==
    /\ pc = "start"
    /\ prog = "gate"
    /\ gate' \in GateArgs
    /\ summary' \in SummaryFiles
    /\ stdout' = IF summary' = NoData
                 THEN <<"Error: Performance summary not found">> ELSE <<>>
    /\ pc' = "loaded"
    /\ UNCHANGED <<prog, thresholds, baseline_data, current_data, baseline_metrics,
                   current_metrics, result, gate_passed, gate_output, exit_code,
                   results, baseline_results, summary_file>>

\* gate: if summary is None: sys.exit(1)
SummaryMissing ==
    /\ pc = "loaded"
    /\ prog = "gate"
    /\ IsNone(summary)
    /\ exit_code' = 1
    /\ pc' = "exited"
    /\ UNCHANGED <<prog, thresholds, baseline_data, current_data, baseline_metrics,
                   current_metrics, result, gate, summary, gate_passed, gate_output,
                   results, baseline_results, summary_file, stdout>>

\* gate: checker.check_gate(summary)
CheckGate ==
    /\ pc = "loaded"
    /\ prog = "gate"
    /\ ~IsNone(summary)
    /\ gate_passed' = check_gate(gate, summary).passed
    /\ gate_output' = check_gate(gate, summary).output
    /\ stdout' = stdout \o check_gate(gate, summary).output
                 \o (IF check_gate(gate, summary).passed
                     THEN <<"PASS: All performance gates passed">> ELSE <<>>)
    /\ pc' = "checked"
    /\ UNCHANGED <<prog, thresholds, baseline_data, current_data, baseline_metrics,
                   current_metrics, result, gate, summary, exit_code,
                   results, baseline_results, summary_file>>

\* gate: sys.exit(0) if check_gate returned True, else sys.exit(1)
ExitOnGate ==
    /\ pc = "checked"
    /\ prog = "gate"
    /\ stdout' = IF gate_passed THEN stdout
                 ELSE Append(stdout, "Performance gate failed. Build will be rejected.")
    /\ exit_code' = IF gate_passed THEN 0 ELSE 1
    /\ pc' = "exited"
    /\ UNCHANGED <<prog, thresholds, baseline_data, current_data, baseline_metrics,
                   current_metrics, result, gate, summary, gate_passed, gate_output,
                   results, baseline_results, summary_file>>

\* analysis: parse_args, the thresholds and analyzer.load_results; a missing
\* input directory raises FileNotFoundError, which main catches: sys.exit(1)
LoadResults ==
    /\ pc = "start"
    /\ prog = "analysis"
    /\ thresholds' \in {PerformanceThresholds(t) : t \in AnalysisThresholdArgs}
    /\ current_data' \in AnalysisDirectories
    /\ IF current_data' = NoDirectory
       THEN /\ baseline_data' = NoData
            /\ results' = results
            /\ baseline_results' = baseline_results
            /\ stdout' = <<"Error during performance analysis">>
            /\ exit_code' = 1
            /\ pc' = "exited"
       ELSE /\ baseline_data' \in AnalysisBaselines
            /\ results' = results \o load_json_file(current_data')
            /\ baseline_results' = baseline_results \o load_json_file(baseline_data')
            /\ stdout' = stdout
            /\ exit_code' = exit_code
            /\ pc' = "loaded"
    /\ UNCHANGED <<prog, baseline_metrics, current_metrics, result, gate, summary,
                   gate_passed, gate_output, summary_file>>

\* analysis: summary = analyzer.analyze_performance(); a ZeroDivisionError is
\* caught by main: sys.exit(1)
AnalyzePerformance ==
    /\ pc = "loaded"
    /\ prog = "analysis"
    /\ IF analyze_performance_raises(thresholds, results, baseline_results)
       THEN /\ summary' = summary
            /\ stdout' = Append(stdout, "Error during performance analysis")
            /\ exit_code' = 1
            /\ pc' = "exited"
       ELSE /\ summary' = analyze_performance(thresholds, results, baseline_results)
            /\ stdout' = stdout
            /\ exit_code' = exit_code
            /\ pc' = "analyzed"
    /\ UNCHANGED <<prog, thresholds, baseline_data, current_data, baseline_metrics,
                   current_metrics, result, gate, gate_passed, gate_output,
                   results, baseline_results, summary_file>>

\* SaveSummary with the records consumed as the summary is written
SaveSummary_ConsumesResults ==
    /\ pc = "analyzed"
    /\ prog = "analysis"
    /\ \E timestamp \in Timestamps :
           summary_file' =
               SummaryData(analyze_performance(thresholds, results, baseline_results),
                           timestamp)
    /\ results' = <<>>
    /\ pc' = "saved"
    /\ UNCHANGED <<prog, thresholds, baseline_data, current_data, baseline_metrics,
                   current_metrics, result, gate, summary, gate_passed, gate_output,
                   exit_code, baseline_results, stdout>>

\* analysis: generate_detailed_report, then save_summary, which analyzes again
\* and writes performance-summary.json
SaveSummary ==
    /\ pc = "analyzed"
    /\ prog = "analysis"
    /\ \E timestamp \in Timestamps :
           summary_file' =
               SummaryData(analyze_performance(thresholds, results, baseline_results),
                           timestamp)
    /\ pc' = "saved"
    /\ UNCHANGED <<prog, thresholds, baseline_data, current_data, baseline_metrics,
                   current_metrics, result, gate, summary, gate_passed, gate_output,
                   exit_code, results, baseline_results, stdout>>

\* analysis: the printed summary, then
\* if summary.regression_detected: sys.exit(1) else: sys.exit(0)
ExitOnSummary ==
    /\ pc = "saved"
    /\ prog = "analysis"
    /\ stdout' = stdout \o
                 <<"Status: " \o summary.status,
                   IF summary.regression_detected
                   THEN "Regression detected: True" ELSE "Regression detected: False">>
    /\ exit_code' = IF summary.regression_detected THEN 1 ELSE 0
    /\ pc' = "exited"
    /\ UNCHANGED <<prog, thresholds, baseline_data, current_data, baseline_metrics,
                   current_metrics, result, gate, summary, gate_passed, gate_output,
                   results, baseline_results, summary_file>>

Next ==
    \/ LoadData
    \/ LoadFailed
    \/ PrintComparison
    \/ DetectRegression
    \/ ComparePerformance
    \/ GenerateReport
    \/ ExitOnResult
    \/ LoadSummary
    \/ SummaryMissing
    \/ CheckGate
    \/ ExitOnGate
    \/ LoadResults
    \/ AnalyzePerformance
    \/ SaveSummary
    \/ ExitOnSummary

Spec == Init /\ [][Next]_vars

----------------------------------------------------------------------------
(* extract_metrics as a function of its input: the input is drawn from      *)
(* ExtractInputs and one of the two copies is applied to it.                *)

InitExtract ==
    /\ pc = "call"
    /\ prog \in {"Detector.extract_metrics", "Comparator.extract_metrics"}
    /\ current_data \in ExtractInputs
    /\ current_metrics = NoData
    /\ thresholds = NoData
    /\ baseline_data = NoData
    /\ baseline_metrics = NoData
    /\ result = NoData
    /\ gate = NoData
    /\ summary = NoData
    /\ gate_passed = FALSE
    /\ gate_output = <<>>
    /\ exit_code = -1
    /\ results = <<>>
    /\ baseline_results = <<>>
    /\ summary_file = NoData
    /\ stdout = <<>>

DetectorExtract ==
    /\ pc = "call"
    /\ prog = "Detector.extract_metrics"
    /\ IF extract_metrics_raises(current_data)
       THEN current_metrics' = AttributeError /\ pc' = "raised"
       ELSE current_metrics' = extract_metrics(current_data) /\ pc' = "return"
    /\ UNCHANGED <<prog, thresholds, baseline_data, current_data, baseline_metrics,
                   result, gate, summary, gate_passed, gate_output, exit_code,
                   results, baseline_results, summary_file, stdout>>

ComparatorExtract ==
    /\ pc = "call"
    /\ prog = "Comparator.extract_metrics"
    /\ IF Comparator_extract_metrics_raises(current_data)
       THEN current_metrics' = AttributeError /\ pc' = "raised"
       ELSE current_metrics' = Comparator_extract_metrics(current_data) /\ pc' = "return"
    /\ UNCHANGED <<prog, thresholds, baseline_data, current_data, baseline_metrics,
                   result, gate, summary, gate_passed, gate_output, exit_code,
                   results, baseline_results, summary_file, stdout>>

NextExtract == DetectorExtract \/ ComparatorExtract

SpecExtract == InitExtract /\ [][NextExtract]_vars

----------------------------------------------------------------------------
(* detect_regression, compare_performance and analyze_performance as        *)
(* functions of their arguments: the arguments are drawn by the initial     *)
(* state and the function is applied to them.                               *)

\* thresholds of the calls: the defaults, with min_benchmarks 0, 1 and 5
CallThresholds ==
    [execution_time_percent : {<<10, 1>>},
     memory_usage_percent : {<<15, 1>>},
     failure_rate_increase : {<<5, 1>>},
     min_benchmarks : {0, 1, 5}]

\* current inputs of the calls: lists, summaries, and values that are neither
CallCurrentInputs ==
    {List(s) : s \in ListsUpTo(CurrentElements, MaxLen)}
    \cup CurrentSummaries
    \cup {Null, Number(<<42, 1>>), Str("n/a")}

CallBaselineInputs ==
    {List(s) : s \in ListsUpTo(BaselineElements, MaxBaseLen)} \cup BaselineSummaries

\* PerformanceThresholds of the calls of analyze_performance
AnalyzerThresholds ==
    [execution_time_ms : {<<1000, 1>>},
     memory_usage_mb : {<<100, 1>>},
     regression_threshold_percent : {<<10, 1>>, <<5, 1>>},
     max_failed_benchmarks : {0, 1}]

\* BenchmarkResult records: within and beyond the absolute thresholds, and failed
AnalyzerRecords ==
    {[execution_time |-> 100, memory_usage |-> MB(20), success |-> TRUE],
     [execution_time |-> 108, memory_usage |-> MB(20), success |-> TRUE],
     [execution_time |-> 1500, memory_usage |-> MB(150), success |-> TRUE],
     [execution_time |-> 500, memory_usage |-> MB(90), success |-> FALSE]}

AnalyzerBaselineRecords ==
    {<<>>,
     <<[execution_time |-> 100, memory_usage |-> MB(20), success |-> TRUE]>>,
     <<[execution_time |-> 0, memory_usage |-> MB(20), success |-> TRUE]>>,
     <<[execution_time |-> 100, memory_usage |-> MB(20), success |-> FALSE]>>}

InitCall ==
    /\ pc = "call"
    /\ \/ /\ prog \in {"Detector.detect_regression", "Comparator.compare_performance"}
          /\ thresholds \in CallThresholds
          /\ baseline_data \in CallBaselineInputs
          /\ current_data \in CallCurrentInputs
          /\ results = <<>>
          /\ baseline_results = <<>>
       \/ /\ prog = "Analyzer.analyze_performance"
          /\ thresholds \in AnalyzerThresholds
          /\ baseline_data = NoData
          /\ current_data = NoData
          /\ results \in ListsUpTo(AnalyzerRecords, MaxLen)
          /\ baseline_results \in AnalyzerBaselineRecords
    /\ baseline_metrics = NoData
    /\ current_metrics = NoData
    /\ result = NoData
    /\ gate = NoData
    /\ summary = NoData
    /\ gate_passed = FALSE
    /\ gate_output = <<>>
    /\ exit_code = -1
    /\ summary_file = NoData
    /\ stdout = <<>>

\* detector.detect_regression(baseline_data, current_data), with the two metrics
\* tuples it extracts
CallDetect ==
    /\ pc = "call"
    /\ prog = "Detector.detect_regression"
    /\ baseline_metrics' = extract_metrics(baseline_data)
    /\ current_metrics' = extract_metrics(current_data)
    /\ result' = detect_regression(thresholds, baseline_data, current_data)
    /\ pc' = "return"
    /\ UNCHANGED <<prog, thresholds, baseline_data, current_data, gate, summary,
                   gate_passed, gate_output, exit_code, results, baseline_results,
                   summary_file, stdout>>

\* comparator.compare_performance(baseline_data, current_data), with the two
\* metrics tuples it extracts
CallCompare ==
    /\ pc = "call"
    /\ prog = "Comparator.compare_performance"
    /\ baseline_metrics' = Comparator_extract_metrics(baseline_data)
    /\ current_metrics' = Comparator_extract_metrics(current_data)
    /\ result' = compare_performance(thresholds, baseline_data, current_data)
    /\ pc' = "return"
    /\ UNCHANGED <<prog, thresholds, baseline_data, current_data, gate, summary,
                   gate_passed, gate_output, exit_code, results, baseline_results,
                   summary_file, stdout>>

\* analyzer.analyze_performance()
CallAnalyze ==
    /\ pc = "call"
    /\ prog = "Analyzer.analyze_performance"
    /\ IF analyze_performance_raises(thresholds, results, baseline_results)
       THEN summary' = summary /\ pc' = "raised"
       ELSE /\ summary' = analyze_performance(thresholds, results, baseline_results)
            /\ pc' = "return"
    /\ UNCHANGED <<prog, thresholds, baseline_data, current_data, baseline_metrics,
                   current_metrics, result, gate, gate_passed, gate_output, exit_code,
                   results, baseline_results, summary_file, stdout>>

NextCall == CallDetect \/ CallCompare \/ CallAnalyze

SpecCall == InitCall /\ [][NextCall]_vars

----------------------------------------------------------------------------
(* The analysis followed by the gate: performance-gate.py run with           *)
(* --input-dir naming the output directory of a performance-analysis.py run  *)
(* that has exited.  exit_code holds the status of the script that exited    *)
(* last, stdout the lines of both scripts.                                   *)

\* command-line gates of the pipeline: the defaults, and ceilings of 0
PipelineGateArgs ==
    [max_execution_time_ms : {<<0, 1>>, <<1000, 1>>},
     max_memory_usage_mb : {<<0, 1>>, <<100, 1>>},
     max_failure_rate : {<<0, 1>>, <<1, 50>>}]

InitPipeline == Init /\ prog = "analysis"

\* gate: parse_args, the gate and load_summary of the file the analysis wrote
\* (None if it wrote none)
PipelineLoadSummary ==
    /\ pc = "exited"
    /\ prog = "analysis"
    /\ prog' = "gate"
    /\ gate' \in PipelineGateArgs
    /\ summary' = summary_file
    /\ stdout' = IF summary_file = NoData
                 THEN Append(stdout, "Error: Performance summary not found")
                 ELSE stdout
    /\ pc' = "loaded"
    /\ UNCHANGED <<thresholds, baseline_data, current_data, baseline_metrics,
                   current_metrics, result, gate_passed, gate_output, exit_code,
                   results, baseline_results, summary_file>>

NextPipeline ==
    \/ LoadResults
    \/ AnalyzePerformance
    \/ SaveSummary
    \/ ExitOnSummary
    \/ PipelineLoadSummary
    \/ SummaryMissing
    \/ CheckGate
    \/ ExitOnGate

SpecPipeline == InitPipeline /\ [][NextPipeline]_vars

----------------------------------------------------------------------------
(* Properties of the detectors and of the gate, checked under Spec *)

\* a RegressionResult or ComparisonResult has been returned in this run
Returned == prog \in {"regression", "comparison"} /\ result # NoData

\* the number of successful records of the current input, counted on the input
CurrentSuccessful ==
    IF current_data.type = "list" THEN Cardinality({i \in 1..Len(current_data.v) :
           "success" \in DOMAIN current_data.v[i].v /\ current_data.v[i].v.success})
    ELSE IF current_data.type = "dict" /\ "successful_benchmarks" \in DOMAIN current_data.v
    THEN current_data.v.successful_benchmarks
    ELSE 0

\* the insufficient-data short-circuit applies to the returned result
ShortCircuit == Returned /\ CurrentSuccessful < thresholds.min_benchmarks

\* a result was returned and the short-circuit does not apply
Classified == Returned /\ ~(CurrentSuccessful < thresholds.min_benchmarks)

\* the three per-metric flags of a classified result: fields of RegressionResult,
\* the "regressions" section of a ComparisonResult's detailed comparison
TimeFlag ==
    IF prog = "regression" THEN result.execution_time_regression
    ELSE result.detailed_comparison.regressions.execution_time
MemoryFlag ==
    IF prog = "regression" THEN result.memory_regression
    ELSE result.detailed_comparison.regressions.memory_usage
FailureFlag ==
    IF prog = "regression" THEN result.failure_rate_regression
    ELSE result.detailed_comparison.regressions.failure_rate

\* the metrics the result was computed from: the tuples main extracted
\* (regression), the echo in the detailed comparison (comparison)
BaseTime ==
    IF prog = "regression" THEN baseline_metrics[1]
    ELSE result.detailed_comparison.baseline.execution_time
BaseMemory ==
    IF prog = "regression" THEN baseline_metrics[2]
    ELSE result.detailed_comparison.baseline.memory_usage
BaseFailureRate ==
    IF prog = "regression" THEN baseline_metrics[3]
    ELSE result.detailed_comparison.baseline.failure_rate
CurTime ==
    IF prog = "regression" THEN current_metrics[1]
    ELSE result.detailed_comparison.current.execution_time
CurMemory ==
    IF prog = "regression" THEN current_metrics[2]
    ELSE result.detailed_comparison.current.memory_usage
CurFailureRate ==
    IF prog = "regression" THEN current_metrics[3]
    ELSE result.detailed_comparison.current.failure_rate

\* x > y, x = y and x < 0 on rationals, by cross-multiplication
Greater(x, y) == x[1] * y[2] > y[1] * x[2]
Same(x, y) == x[1] * y[2] = y[1] * x[2]
Negative(x) == x[1] < 0

\* change is (cur - base) / base * 100, stated without division
IsPercentChange(change, base, cur) ==
    change[1] * (cur[2] * base[1]) = (cur[1] * base[2] - base[1] * cur[2]) * 100 * change[2]

\* C1: if the current run's successfulCount is below minBenchmarks, the result
\* has hasRegression = true, no per-metric flag set (the three fields of a
\* RegressionResult are false; a ComparisonResult reports no flag as true), the
\* three changes 0.0 and exactly one recommendation, which names the shortfall.
C1_InsufficientDataShortCircuit ==
    ShortCircuit =>
        /\ result.has_regression = TRUE
        /\ result.execution_time_change = <<0, 1>>
        /\ result.memory_change = <<0, 1>>
        /\ result.failure_rate_change = <<0, 1>>
        /\ result.recommendations =
               << <<"Insufficient successful benchmarks: ", CurrentSuccessful,
                    " < ", thresholds.min_benchmarks>> >>
        /\ prog = "regression" =>
               /\ result.execution_time_regression = FALSE
               /\ result.memory_regression = FALSE
               /\ result.failure_rate_regression = FALSE
        /\ prog = "comparison" =>
               \A section \in DOMAIN result.detailed_comparison :
                   section = "regressions" =>
                       \A flag \in DOMAIN result.detailed_comparison[section] :
                           result.detailed_comparison[section][flag] = FALSE

\* C1 witness: detect_regression returned for a current list of 3 successful
\* records out of 3 under minBenchmarks = 5, against a baseline of which the
\* current run is no worse.
C1_Witness ==
    /\ ShortCircuit
    /\ prog = "regression"
    /\ current_data.type = "list"
    /\ Len(current_data.v) = 3
    /\ CurrentSuccessful = 3
    /\ thresholds.min_benchmarks = 5
    /\ baseline_data.type = "dict"
    /\ baseline_data.v.avg_execution_time = <<1000, 1>>

\* C2: when the short-circuit does not apply, each flag is set iff its change is
\* strictly greater than its threshold (the failure-rate threshold divided by
\* 100); a change equal to the threshold sets no flag, and under a non-negative
\* threshold a negative change sets no flag.
C2_StrictClassification ==
    Classified =>
        LET tc == result.execution_time_change
            mc == result.memory_change
            fc == result.failure_rate_change
            tt == thresholds.execution_time_percent
            mt == thresholds.memory_usage_percent
            ft == <<thresholds.failure_rate_increase[1],
                    thresholds.failure_rate_increase[2] * 100>>
        IN  /\ TimeFlag <=> Greater(tc, tt)
            /\ MemoryFlag <=> Greater(mc, mt)
            /\ FailureFlag <=> Greater(fc, ft)
            /\ Same(tc, tt) => ~TimeFlag
            /\ Same(mc, mt) => ~MemoryFlag
            /\ Same(fc, ft) => ~FailureFlag
            /\ (Negative(tc) /\ ~Negative(tt)) => ~TimeFlag
            /\ (Negative(mc) /\ ~Negative(mt)) => ~MemoryFlag
            /\ (Negative(fc) /\ ~Negative(ft)) => ~FailureFlag

\* C2 witness: a classified result whose time change equals its threshold of 10
\* (no flag), whose memory change of 20 exceeds the threshold of 15 (flag) and
\* whose failure-rate change equals 5/100 (no flag).
C2_Witness ==
    /\ Classified
    /\ thresholds.execution_time_percent = <<10, 1>>
    /\ result.execution_time_change = <<10, 1>>
    /\ ~TimeFlag
    /\ result.memory_change = <<20, 1>>
    /\ MemoryFlag
    /\ thresholds.failure_rate_increase = <<5, 1>>
    /\ result.failure_rate_change = <<1, 20>>
    /\ ~FailureFlag

\* C2 witness of the improvement case: a time change of -50.0 under the
\* threshold 10, and no time flag.
C2_WitnessImprovement ==
    /\ Classified
    /\ result.execution_time_change = <<-50, 1>>
    /\ thresholds.execution_time_percent = <<10, 1>>
    /\ ~TimeFlag

\* C3 (as amended): when the short-circuit does not apply, the time change is
\* (cur - base) / base * 100 if base > 0 and 0.0 otherwise, the same for memory,
\* and the failure-rate change is cur - base; for a zero baseline the change is
\* 0.0, and the flag is false when its threshold is not negative.
C3_RelativeChange ==
    Classified =>
        LET tc == result.execution_time_change
            mc == result.memory_change
            fc == result.failure_rate_change
        IN  /\ IF BaseTime[1] > 0 THEN IsPercentChange(tc, BaseTime, CurTime)
               ELSE tc = <<0, 1>>
            /\ IF BaseMemory[1] > 0 THEN IsPercentChange(mc, BaseMemory, CurMemory)
               ELSE mc = <<0, 1>>
            /\ fc[1] * (CurFailureRate[2] * BaseFailureRate[2])
                   = (CurFailureRate[1] * BaseFailureRate[2]
                          - BaseFailureRate[1] * CurFailureRate[2]) * fc[2]
            /\ (BaseTime[1] = 0 /\ thresholds.execution_time_percent[1] >= 0)
                   => ~TimeFlag
            /\ (BaseMemory[1] = 0 /\ thresholds.memory_usage_percent[1] >= 0)
                   => ~MemoryFlag

\* C3 witness: a classified result for a baseline time and memory of 0 and a
\* current time and memory above 0: both changes are 0.0 and no flag is set.
C3_Witness ==
    /\ Classified
    /\ BaseTime = <<0, 1>> /\ BaseMemory = <<0, 1>>
    /\ CurTime[1] > 0 /\ CurMemory[1] > 0
    /\ result.execution_time_change = <<0, 1>>
    /\ result.memory_change = <<0, 1>>
    /\ ~TimeFlag /\ ~MemoryFlag

\* C3 as stated: as C3_RelativeChange, with the flag of a zero baseline false
\* whatever the threshold is.
C3_Original ==
    /\ C3_RelativeChange
    /\ Classified =>
           /\ BaseTime[1] = 0 => ~TimeFlag
           /\ BaseMemory[1] = 0 => ~MemoryFlag

\* C4: when the short-circuit does not apply, hasRegression is true iff at
\* least one of the three per-metric flags is true.
C4_OverallIsDisjunction ==
    Classified => (result.has_regression <=> (TimeFlag \/ MemoryFlag \/ FailureFlag))

\* C4 witness: a classified result whose only flag is the failure-rate flag, and
\* whose hasRegression is true.
C4_Witness ==
    /\ Classified
    /\ ~TimeFlag /\ ~MemoryFlag /\ FailureFlag
    /\ result.has_regression

\* check_gate has returned in this run
GateChecked == prog = "gate" /\ pc \in {"checked", "exited"} /\ ~IsNone(summary)

\* the four failing conditions of the gate, read off the summary and the gate
SummaryTime ==
    IF "avg_execution_time" \in DOMAIN summary.v THEN summary.v.avg_execution_time
    ELSE <<0, 1>>
SummaryMemory ==
    IF "memory_usage" \in DOMAIN summary.v THEN summary.v.memory_usage ELSE <<0, 1>>
SummaryTotal ==
    IF "total_benchmarks" \in DOMAIN summary.v THEN summary.v.total_benchmarks ELSE 0
SummaryFailed ==
    IF "failed_benchmarks" \in DOMAIN summary.v THEN summary.v.failed_benchmarks ELSE 0
TimeOverCeiling == Greater(SummaryTime, gate.max_execution_time_ms)
MemoryOverCeiling == Greater(SummaryMemory, gate.max_memory_usage_mb)
FailureRateOverCeiling ==
    /\ SummaryTotal > 0
    /\ SummaryFailed * gate.max_failure_rate[2] > gate.max_failure_rate[1] * SummaryTotal
RegressionFlagged ==
    "regression_detected" \in DOMAIN summary.v /\ summary.v.regression_detected

\* C5: check_gate passes iff none of the four conditions holds; with
\* totalCount = 0 the failure-rate check passes whatever failedCount is.
C5_GatePassCondition ==
    GateChecked =>
        /\ gate_passed <=> ~(\/ TimeOverCeiling
                             \/ MemoryOverCeiling
                             \/ FailureRateOverCeiling
                             \/ RegressionFlagged)
        /\ (SummaryTotal = 0 /\ ~TimeOverCeiling /\ ~MemoryOverCeiling
                /\ ~RegressionFlagged) => gate_passed

\* C5 witness: the gate passed a summary that states total_benchmarks = 0 and
\* failed_benchmarks = 3, with time and memory exactly at their ceilings.
C5_Witness ==
    /\ GateChecked
    /\ gate_passed
    /\ "total_benchmarks" \in DOMAIN summary.v /\ SummaryTotal = 0
    /\ SummaryFailed = 3
    /\ SummaryTime = gate.max_execution_time_ms
    /\ SummaryMemory = gate.max_memory_usage_mb

\* the FAIL lines check_gate printed, as a set
GateReasons == {gate_output[i] : i \in 1..Len(gate_output)}

\* C6: in one call of check_gate every check that fails contributes its own
\* failure reason to the output.
C6_EveryFailureReported ==
    GateChecked =>
        /\ TimeOverCeiling => "FAIL: Execution time exceeds threshold" \in GateReasons
        /\ MemoryOverCeiling => "FAIL: Memory usage exceeds threshold" \in GateReasons
        /\ FailureRateOverCeiling => "FAIL: Failure rate exceeds threshold" \in GateReasons
        /\ RegressionFlagged => "FAIL: Performance regression detected" \in GateReasons

----------------------------------------------------------------------------
(* Properties of extract_metrics, checked under SpecExtract *)

\* the input of a returned extract_metrics call, when it is a list
ReturnedFromList == pc = "return" /\ current_data.type = "list"

\* the input of a returned extract_metrics call, when it is a mapping
ReturnedFromSummary == pc = "return" /\ current_data.type = "dict"

\* the positions of the records of list d whose success key is present and true
SuccessfulIdx(d) == {i \in 1..Len(d) : "success" \in DOMAIN d[i].v /\ d[i].v.success}

\* the value of metrics.<key> of record e, 0 when metrics or the key is absent
MetricField(e, key) ==
    IF "metrics" \in DOMAIN e.v /\ key \in DOMAIN e.v.metrics.v
    THEN e.v.metrics.v[key]
    ELSE 0

\* the sum of metrics.<key> over the positions I of list d
RECURSIVE SumAt(_, _, _)
SumAt(d, I, key) ==
    IF I = {} THEN 0
    ELSE LET i == CHOOSE j \in I : TRUE
         IN  MetricField(d[i], key) + SumAt(d, I \ {i}, key)

\* the value of a summary field, 0 when the field is absent
FieldOrZero(data, key) == IF key \in DOMAIN data.v THEN data.v[key] ELSE 0
FieldOrZeroR(data, key) == IF key \in DOMAIN data.v THEN data.v[key] ELSE <<0, 1>>

\* C7: for every list input with zero successful records, extract_metrics
\* returns exactly (0.0, 0.0, 1.0, 0, N), N the length of the list.
C7_AllFailureSentinel ==
    (ReturnedFromList /\ SuccessfulIdx(current_data.v) = {})
        => current_metrics = <<<<0, 1>>, <<0, 1>>, <<1, 1>>, 0, Len(current_data.v)>>

\* C7 witness: a returned call on a list of two or more records, none of them
\* successful, one of them carrying a non-zero execution time.
C7_Witness ==
    /\ ReturnedFromList
    /\ Len(current_data.v) >= 2
    /\ SuccessfulIdx(current_data.v) = {}
    /\ \E i \in 1..Len(current_data.v) : MetricField(current_data.v[i], "executionTime") > 0

\* C8: for a list with at least one successful record, the time average is the
\* mean of executionTime over the successful records only, the memory average
\* that mean of memoryUsage divided by 1,048,576, failureRate is
\* failedCount / totalCount, successfulCount the number of successful records
\* and totalCount the length of the list.
C8_ListReduction ==
    (ReturnedFromList /\ SuccessfulIdx(current_data.v) # {}) =>
        LET d == current_data.v
            S == SuccessfulIdx(d)
            k == Cardinality(S)
            m == current_metrics
        IN  /\ MTime(m)[1] * k = SumAt(d, S, "executionTime") * MTime(m)[2]
            /\ MMemory(m)[1] * (k * BytesPerMB) = SumAt(d, S, "memoryUsage") * MMemory(m)[2]
            /\ MFailureRate(m)[1] * Len(d) = (Len(d) - k) * MFailureRate(m)[2]
            /\ MSuccessful(m) = k
            /\ MTotal(m) = Len(d)

\* C8 witness: a returned call on a list with two successful records of different
\* execution times and a failed record whose time and memory are not zero.
C8_Witness ==
    /\ ReturnedFromList
    /\ \E i, j \in SuccessfulIdx(current_data.v) :
           MetricField(current_data.v[i], "executionTime")
               # MetricField(current_data.v[j], "executionTime")
    /\ \E i \in (1..Len(current_data.v)) \ SuccessfulIdx(current_data.v) :
           /\ MetricField(current_data.v[i], "executionTime") > 0
           /\ MetricField(current_data.v[i], "memoryUsage") > 0

\* C9 (as amended): for a mapping input, avg_execution_time, memory_usage,
\* successful_benchmarks and total_benchmarks pass through unchanged (missing
\* fields read as 0) and failureRate = failed_benchmarks / max(total_benchmarks, 1);
\* so with total_benchmarks 0 or absent failureRate is failed_benchmarks itself,
\* which is 0 for the empty mapping.
C9_SummaryReduction ==
    ReturnedFromSummary =>
        LET data == current_data
            m == current_metrics
            failed == FieldOrZero(data, "failed_benchmarks")
            total == FieldOrZero(data, "total_benchmarks")
        IN  /\ MTime(m) = FieldOrZeroR(data, "avg_execution_time")
            /\ MMemory(m) = FieldOrZeroR(data, "memory_usage")
            /\ MSuccessful(m) = FieldOrZero(data, "successful_benchmarks")
            /\ MTotal(m) = total
            /\ MFailureRate(m)[1] * (IF total > 1 THEN total ELSE 1)
                   = failed * MFailureRate(m)[2]
            /\ total = 0 => MFailureRate(m) = <<failed, 1>>
            /\ DOMAIN data.v = {} => m = <<<<0, 1>>, <<0, 1>>, <<0, 1>>, 0, 0>>

\* C9 witness: a returned call on a summary that states total_benchmarks = 0 and
\* a non-zero failed_benchmarks.
C9_Witness ==
    /\ ReturnedFromSummary
    /\ "total_benchmarks" \in DOMAIN current_data.v
    /\ current_data.v.total_benchmarks = 0
    /\ FieldOrZero(current_data, "failed_benchmarks") > 0

\* C9 as stated: the reduction above, and every summary with total_benchmarks = 0,
\* like the empty mapping, yields failureRate 0.
C9_Original ==
    /\ C9_SummaryReduction
    /\ (/\ ReturnedFromSummary
        /\ \/ DOMAIN current_data.v = {}
           \/ /\ "total_benchmarks" \in DOMAIN current_data.v
              /\ current_data.v.total_benchmarks = 0)
           => MFailureRate(current_metrics) = <<0, 1>>

\* C10: every metrics tuple extract_metrics returns satisfies
\* 0 <= failureRate <= 1 and successfulCount <= totalCount.
C10_MetricsTupleInvariant ==
    pc = "return" =>
        /\ RLe(<<0, 1>>, MFailureRate(current_metrics))
        /\ RLe(MFailureRate(current_metrics), <<1, 1>>)
        /\ MSuccessful(current_metrics) <= MTotal(current_metrics)

\* the positions of the records of list d that have no success key
NoSuccessKeyIdx(d) == {i \in 1..Len(d) : "success" \notin DOMAIN d[i].v}

\* the positions of the records of list d that do not state metrics.<key>
LacksMetric(d, key) ==
    {i \in 1..Len(d) : ~("metrics" \in DOMAIN d[i].v /\ key \in DOMAIN d[i].v.metrics.v)}

\* the sum of the values metrics.<key> that the records at the positions I state
RECURSIVE SumStated(_, _, _)
SumStated(d, I, key) ==
    IF I = {} THEN 0
    ELSE LET i == CHOOSE j \in I : TRUE
         IN  d[i].v.metrics.v[key] + SumStated(d, I \ {i}, key)

\* C12: a list element with no success key is counted as failed: it is in
\* totalCount (never dropped) and in the failed count of failureRate, and it is
\* neither in successfulCount nor in either average.
C12_UnknownStatusIsFailure ==
    (ReturnedFromList /\ NoSuccessKeyIdx(current_data.v) # {}) =>
        LET d == current_data.v
            U == NoSuccessKeyIdx(d)
            StatedTrue == {i \in (1..Len(d)) \ U : d[i].v.success}
            StatedFalse == {i \in (1..Len(d)) \ U : ~d[i].v.success}
            m == current_metrics
        IN  /\ MTotal(m) = Cardinality(U) + Cardinality(StatedTrue) + Cardinality(StatedFalse)
            /\ MSuccessful(m) = Cardinality(StatedTrue)
            /\ StatedTrue # {} =>
                   /\ MFailureRate(m)[1] * Len(d)
                          = (Cardinality(U) + Cardinality(StatedFalse)) * MFailureRate(m)[2]
                   /\ MTime(m)[1] * Cardinality(StatedTrue)
                          = SumAt(d, StatedTrue, "executionTime") * MTime(m)[2]
                   /\ MMemory(m)[1] * (Cardinality(StatedTrue) * BytesPerMB)
                          = SumAt(d, StatedTrue, "memoryUsage") * MMemory(m)[2]
            /\ StatedTrue = {} => MFailureRate(m) = <<1, 1>>

\* C12 witness: a returned call on a list that holds a record without a success
\* key whose execution time is not zero, next to a successful record.
C12_Witness ==
    /\ ReturnedFromList
    /\ \E i \in NoSuccessKeyIdx(current_data.v) :
           MetricField(current_data.v[i], "executionTime") > 0
    /\ SuccessfulIdx(current_data.v) # {}
    /\ MSuccessful(current_metrics) < MTotal(current_metrics)

\* C13: a successful element with no metrics mapping, or whose metrics lacks
\* executionTime or memoryUsage, adds 0 to the corresponding average and is
\* still counted in successfulCount and totalCount.
C13_MissingMetricsAreZero ==
    (/\ ReturnedFromList
     /\ \E i \in SuccessfulIdx(current_data.v) :
            i \in LacksMetric(current_data.v, "executionTime")
                   \cup LacksMetric(current_data.v, "memoryUsage")) =>
        LET d == current_data.v
            S == SuccessfulIdx(d)
            m == current_metrics
        IN  /\ MTime(m)[1] * Cardinality(S)
                   = SumStated(d, S \ LacksMetric(d, "executionTime"), "executionTime")
                         * MTime(m)[2]
            /\ MMemory(m)[1] * (Cardinality(S) * BytesPerMB)
                   = SumStated(d, S \ LacksMetric(d, "memoryUsage"), "memoryUsage")
                         * MMemory(m)[2]
            /\ MSuccessful(m) = Cardinality(S)
            /\ MTotal(m) = Len(d)

\* C13 witness: a returned call on a list with a successful record that has no
\* metrics, a successful record that states only executionTime, and a successful
\* record that states both.
C13_Witness ==
    /\ ReturnedFromList
    /\ \E i, j, k \in SuccessfulIdx(current_data.v) :
           /\ "metrics" \notin DOMAIN current_data.v[i].v
           /\ j \in LacksMetric(current_data.v, "memoryUsage")
                    \ LacksMetric(current_data.v, "executionTime")
           /\ k \notin LacksMetric(current_data.v, "memoryUsage")
    /\ MSuccessful(current_metrics) = 3

\* C11: extract_metrics is total: for every parsed JSON value, lists of elements
\* that are not mappings and elements with a null metrics value included, the
\* call returns a tuple and never ends in an error.
C11_ExtractionTotal == pc # "raised"

----------------------------------------------------------------------------
(* Properties of the exit codes and of the reported outcome, checked under   *)
(* Spec                                                                      *)

\* the positions of the analyzer's records that succeeded, and that failed
SucceededIdx(rs) == {i \in 1..Len(rs) : rs[i].success}
FailedIdx(rs) == {i \in 1..Len(rs) : ~rs[i].success}

\* the sum of field over the positions I of the sequence of records rs
RECURSIVE SumOver(_, _, _)
SumOver(rs, I, field) ==
    IF I = {} THEN 0
    ELSE LET i == CHOOSE j \in I : TRUE
         IN  rs[i][field] + SumOver(rs, I \ {i}, field)

\* the run has ended: sys.exit was called, or an exception left main
Ended == pc \in {"exited", "raised"}

\* a required input of the run could not be read
InputUnreadable ==
    \/ prog \in {"regression", "comparison"} /\ pc # "start"
           /\ (IsNone(baseline_data) \/ IsNone(current_data))
    \/ prog = "gate" /\ pc # "start" /\ IsNone(summary)
    \/ prog = "analysis" /\ current_data = NoDirectory

\* the run found a regression, or its gate failed
RunFailed ==
    \/ Returned /\ result.has_regression
    \/ GateChecked /\ ~gate_passed
    \/ prog = "analysis" /\ summary # NoData /\ summary.regression_detected

\* the run passed: it came to a verdict, and the verdict is not a failure
RunPassed ==
    \/ Returned /\ ~result.has_regression
    \/ GateChecked /\ gate_passed
    \/ prog = "analysis" /\ summary # NoData
           /\ summary.status \notin {"ERROR", "FAILED", "REGRESSION"}

\* C16: every entry point ends with exit code 0 only when the run passed, and
\* with exit code 1 whenever a regression was detected, the gate failed or a
\* required input could not be read; exit 0 never follows has_regression = true
\* or a check_gate that returned false.
C16_ExitCodeIsControlSignal ==
    /\ exit_code = 0 => RunPassed
    /\ (Ended /\ (RunFailed \/ InputUnreadable)) => exit_code = 1
    /\ (Returned /\ result.has_regression) => exit_code # 0
    /\ (GateChecked /\ ~gate_passed) => exit_code # 0

\* C17: a run whose input yields no record (status ERROR) or no successful
\* record (status FAILED) has a summary with zero-valued metrics and ends with a
\* non-zero exit code, and so do the runs with insufficient evidence and with
\* an exceeded threshold.
C17_NoSilentPass ==
    /\ (prog = "analysis" /\ summary # NoData /\ summary.status \in {"ERROR", "FAILED"}) =>
           /\ summary.avg_execution_time = <<0, 1>>
           /\ summary.memory_usage = <<0, 1>>
           /\ Ended => exit_code # 0
    /\ (prog = "analysis" /\ summary # NoData /\ summary.status = "REGRESSION" /\ Ended)
           => exit_code # 0
    /\ (Returned /\ Ended /\ CurrentSuccessful < thresholds.min_benchmarks)
           => exit_code # 0
    /\ (Returned /\ Ended /\ result.has_regression) => exit_code # 0

\* the current input of the run was read
CurrentReadable ==
    /\ prog \in {"regression", "comparison", "analysis"}
    /\ pc # "start"
    /\ ~IsNone(current_data)
    /\ current_data # NoDirectory

\* the absolute checks of the analyzer on the loaded records: no successful
\* record, an average beyond its ceiling, or more failures than allowed
AbsoluteChecksFail ==
    LET S == SucceededIdx(results)
    IN  \/ S = {}
        \/ SumOver(results, S, "execution_time")
               > thresholds.execution_time_ms[1] * Cardinality(S)
        \/ SumOver(results, S, "memory_usage")
               > thresholds.memory_usage_mb[1] * BytesPerMB * Cardinality(S)
        \/ Cardinality(FailedIdx(results)) > thresholds.max_failed_benchmarks

\* C18: when the baseline file is absent and the current input is readable, the
\* run is not failed for that reason: it comes to its verdict without the
\* baseline comparison, decided by the absolute checks on the current metrics.
C18_BaselineAbsenceNonFatal ==
    (CurrentReadable /\ baseline_data = NoData /\ Ended) =>
        /\ prog \in {"regression", "comparison"} => result # NoData
        /\ prog = "analysis" =>
               /\ summary # NoData
               /\ results # <<>> => (exit_code = 1 <=> AbsoluteChecksFail)

\* the file the run evaluates is absent: the current file of the detectors, the
\* summary of the gate
CurrentAbsent ==
    \/ prog \in {"regression", "comparison"} /\ pc # "start" /\ current_data = NoData
    \/ prog = "gate" /\ pc # "start" /\ summary = NoData

\* the lines printed so far
Printed == {stdout[i] : i \in 1..Len(stdout)}

\* the lines that report a detected regression or a failed gate
FailureVerdicts ==
    {"Performance regression detected. Build will be rejected.",
     "Regression detected: True",
     "Performance gate failed. Build will be rejected.",
     "FAIL: Performance regression detected"}

\* the lines that report an absent file
AbsenceReports ==
    {"Error: Current performance file not found",
     "Error: Performance summary not found"}

\* C19: when the current file is absent the run stops before any extraction or
\* detection and ends with exit code 1, and what it reports differs from what a
\* run with a detected regression reports: it prints that the file was not found
\* and no regression verdict, and a run with a verdict never prints that a file
\* was not found.
C19_CurrentAbsenceFatalAndDistinct ==
    /\ CurrentAbsent =>
           /\ baseline_metrics = NoData
           /\ current_metrics = NoData
           /\ result = NoData
           /\ gate_output = <<>>
           /\ pc \in {"loaded", "exited"}
           /\ pc = "exited" =>
                  /\ exit_code = 1
                  /\ Printed \cap AbsenceReports # {}
                  /\ Printed \cap FailureVerdicts = {}
    /\ ((Returned \/ GateChecked) /\ Ended) => Printed \cap AbsenceReports = {}

\* C19 witness: the regression check has exited on an absent current file, with
\* its baseline file read.
C19_Witness ==
    /\ CurrentAbsent
    /\ prog = "regression"
    /\ pc = "exited"
    /\ ~IsNone(baseline_data)
    /\ exit_code = 1
    /\ "Error: Could not load performance data" \in Printed

----------------------------------------------------------------------------
(* Properties of the detectors and of the analyzer as functions, checked     *)
(* under SpecCall                                                            *)

\* a detector was called on a current value that is neither a list nor a mapping
DetectorCalledOnScalar ==
    /\ prog \in {"Detector.detect_regression", "Comparator.compare_performance"}
    /\ current_data.type \notin {"list", "dict"}

\* C14: for a current value that is neither a list nor a mapping (a scalar or
\* null), the extraction returns (0.0, 0.0, 0.0, 0, 0) without an error, and a
\* detector run on it with minBenchmarks >= 1 returns the insufficient-data
\* result: a regression with the three changes 0.0 and the one recommendation
\* that names 0 successful benchmarks.
C14_DegenerateShapes ==
    DetectorCalledOnScalar =>
        /\ pc \in {"call", "return"}
        /\ pc = "return" =>
               /\ current_metrics = <<<<0, 1>>, <<0, 1>>, <<0, 1>>, 0, 0>>
               /\ thresholds.min_benchmarks >= 1 =>
                      /\ result.has_regression
                      /\ result.execution_time_change = <<0, 1>>
                      /\ result.memory_change = <<0, 1>>
                      /\ result.failure_rate_change = <<0, 1>>
                      /\ result.recommendations =
                             << <<"Insufficient successful benchmarks: ", 0, " < ",
                                  thresholds.min_benchmarks>> >>

\* C14 witness: detect_regression returned for the current value null under
\* minBenchmarks = 1, against a baseline with a positive time.
C14_Witness ==
    /\ DetectorCalledOnScalar
    /\ prog = "Detector.detect_regression"
    /\ pc = "return"
    /\ current_data = Null
    /\ thresholds.min_benchmarks = 1
    /\ baseline_metrics[1][1] > 0
    /\ result.has_regression

\* analyze_performance has returned a summary
AnalyzerReturned == prog = "Analyzer.analyze_performance" /\ pc = "return"

\* C15: the status of the summary is ERROR if there are no records, FAILED if
\* there are records and none succeeded, REGRESSION if a regression is detected,
\* PARTIAL if some record failed and no regression is detected, PASS otherwise,
\* in this order of priority; it is always one of the five.
C15_StatusDerivation ==
    AnalyzerReturned =>
        /\ summary.status \in {"ERROR", "FAILED", "REGRESSION", "PARTIAL", "PASS"}
        /\ summary.status =
               IF Len(results) = 0 THEN "ERROR"
               ELSE IF SucceededIdx(results) = {} THEN "FAILED"
               ELSE IF summary.regression_detected THEN "REGRESSION"
               ELSE IF FailedIdx(results) # {} THEN "PARTIAL"
               ELSE "PASS"

\* C15 witness: a summary with status PARTIAL, for records of which one failed
\* and two succeeded within every threshold.
C15_Witness ==
    /\ AnalyzerReturned
    /\ summary.status = "PARTIAL"
    /\ Cardinality(FailedIdx(results)) = 1
    /\ Cardinality(SucceededIdx(results)) = 2
    /\ ~summary.regression_detected

\* two inputs of a detector carry the same evidence: two lists with the same
\* counts and the same sums of time and memory over their successful records,
\* two values that are neither list nor mapping, or the same mapping
SameEvidence(a, b) ==
    IF a.type = "list" /\ b.type = "list"
    THEN /\ Len(a.v) = Len(b.v)
         /\ Cardinality(SuccessfulIdx(a.v)) = Cardinality(SuccessfulIdx(b.v))
         /\ SumAt(a.v, SuccessfulIdx(a.v), "executionTime")
                = SumAt(b.v, SuccessfulIdx(b.v), "executionTime")
         /\ SumAt(a.v, SuccessfulIdx(a.v), "memoryUsage")
                = SumAt(b.v, SuccessfulIdx(b.v), "memoryUsage")
    ELSE IF a.type \notin {"list", "dict"} /\ b.type \notin {"list", "dict"}
    THEN TRUE
    ELSE a = b

\* two record lists of the analyzer carry the same evidence
SameRecordsEvidence(a, b) ==
    /\ Len(a) = Len(b)
    /\ Cardinality(SucceededIdx(a)) = Cardinality(SucceededIdx(b))
    /\ SumOver(a, SucceededIdx(a), "execution_time")
           = SumOver(b, SucceededIdx(b), "execution_time")
    /\ SumOver(a, SucceededIdx(a), "memory_usage")
           = SumOver(b, SucceededIdx(b), "memory_usage")

----------------------------------------------------------------------------
(* Properties of the comparison report and of the summary file, checked      *)
(* under Spec                                                                *)

\* the four sections of a detailed comparison
ComparisonSections == {"baseline", "current", "changes", "regressions"}

\* C21: every result of compare_performance, the result of the insufficient-data
\* short-circuit included, carries a detailed comparison with the four sections
\* baseline, current, changes and regressions, and the report generation that
\* reads them completes on it: the run never ends in a missing-key fault.
C21_DetailedComparisonComplete ==
    (prog = "comparison" /\ result # NoData) =>
        /\ DOMAIN result.detailed_comparison = ComparisonSections
        /\ pc # "raised"

\* the keys of the pre-aggregated summary shape, and status
SummaryShape ==
    {"avg_execution_time", "memory_usage", "successful_benchmarks",
     "total_benchmarks", "failed_benchmarks", "regression_detected",
     "recommendations", "status"}

\* the analysis has written performance-summary.json
SummarySaved == prog = "analysis" /\ summary_file # NoData

\* C22: the summary that save_summary writes has every key of the pre-aggregated
\* shape and status, and extract_metrics reads back from it the time, the
\* memory, the failure rate, the successful count and the total count of the
\* loaded records that analyze_performance computed.
C22_SummaryRoundTrip ==
    SummarySaved =>
        /\ SummaryShape \subseteq DOMAIN summary_file.v
        /\ MTime(extract_metrics(summary_file)) = summary.avg_execution_time
        /\ MMemory(extract_metrics(summary_file)) = summary.memory_usage
        /\ MFailureRate(extract_metrics(summary_file)) =
               Rat(Cardinality(FailedIdx(results)), Max(Len(results), 1))
        /\ MSuccessful(extract_metrics(summary_file)) =
               Cardinality(SucceededIdx(results))
        /\ MTotal(extract_metrics(summary_file)) = Len(results)

----------------------------------------------------------------------------
(* Properties of the recommendation list, checked under Spec *)

\* the place of a recommendation in the fixed order, read off its opening words
Rank(msg) ==
    IF msg[1] = "Execution time increased by " THEN 1
    ELSE IF msg[1] = "Memory usage increased by " THEN 2
    ELSE IF msg[1] = "Failure rate increased by " THEN 3
    ELSE IF msg[1] = "No significant performance regression detected" THEN 4
    ELSE 0

\* the number of flags of the returned result that are set
FlagsSet ==
    (IF TimeFlag THEN 1 ELSE 0) + (IF MemoryFlag THEN 1 ELSE 0)
        + (IF FailureFlag THEN 1 ELSE 0)

\* C23: when the short-circuit does not apply, the recommendations are in the
\* order time, memory, failure rate, one per flag that is set, and the single
\* no-regression message is there iff no flag is set; every regression message
\* embeds the measured change and the threshold of its metric.
C23_RecommendationOrder ==
    Classified =>
        LET recs == result.recommendations
            Has(k) == \E i \in 1..Len(recs) : Rank(recs[i]) = k
        IN  /\ Len(recs) = FlagsSet + (IF FlagsSet = 0 THEN 1 ELSE 0)
            /\ \A i \in 1..Len(recs) : Rank(recs[i]) \in 1..4
            /\ \A i, j \in 1..Len(recs) : i < j => Rank(recs[i]) < Rank(recs[j])
            /\ TimeFlag <=> Has(1)
            /\ MemoryFlag <=> Has(2)
            /\ FailureFlag <=> Has(3)
            /\ (FlagsSet = 0) <=> Has(4)
            /\ \A i \in 1..Len(recs) :
                   /\ Rank(recs[i]) = 1 =>
                          /\ recs[i][2] = Fmt1f(result.execution_time_change)
                          /\ recs[i][4] = thresholds.execution_time_percent
                   /\ Rank(recs[i]) = 2 =>
                          /\ recs[i][2] = Fmt1f(result.memory_change)
                          /\ recs[i][4] = thresholds.memory_usage_percent
                   /\ Rank(recs[i]) = 3 =>
                          /\ recs[i][2] = Fmt1pct(result.failure_rate_change)
                          /\ recs[i][4] = thresholds.failure_rate_increase

\* C23 witness: detect_regression returned with the three flags set and three
\* recommendations, under the default thresholds.
C23_Witness ==
    /\ Classified
    /\ prog = "regression"
    /\ TimeFlag /\ MemoryFlag /\ FailureFlag
    /\ Len(result.recommendations) = 3
    /\ thresholds.execution_time_percent = <<10, 1>>
    /\ thresholds.memory_usage_percent = <<15, 1>>

----------------------------------------------------------------------------
(* Properties of the analyzer's baseline comparison and of its loaders *)

\* analyze_performance was called with successful baseline records whose mean
\* execution time is 0
ZeroBaselineCall ==
    /\ prog = "Analyzer.analyze_performance"
    /\ SucceededIdx(baseline_results) # {}
    /\ SumOver(baseline_results, SucceededIdx(baseline_results), "execution_time") = 0

\* C24 (checked under SpecCall): when baseline records exist and the mean
\* execution time of the successful ones is 0, analyze_performance does not
\* divide by zero: the call returns a summary, and the summary records no
\* regression against the baseline.
C24_ZeroBaselineNoComparison ==
    (ZeroBaselineCall /\ pc # "call") =>
        /\ pc = "return"
        /\ \A i \in 1..Len(summary.recommendations) :
               summary.recommendations[i][1] # "Execution time regression: "

\* the items of the result file that are mappings
MappingIdx(d) == {i \in 1..Len(d) : d[i].type = "dict"}

\* C25 (checked under Spec): when the analyzer loads a list, every mapping
\* element becomes one record counted in total_benchmarks: an element without a
\* metrics key is a record with time 0 and memory 0, and an element without a
\* success key is a record that failed.
C25_NoRecordDropped ==
    (prog = "analysis" /\ pc # "start" /\ current_data.type = "list") =>
        /\ Len(results) = Cardinality(MappingIdx(current_data.v))
        /\ summary # NoData => summary.total_benchmarks = Len(results)
        /\ \A i \in 1..Len(current_data.v) :
               (Len(results) = Len(current_data.v)
                    /\ "metrics" \notin DOMAIN current_data.v[i].v) =>
                   /\ results[i].execution_time = 0
                   /\ results[i].memory_usage = 0
        /\ \A i \in 1..Len(current_data.v) :
               (Len(results) = Len(current_data.v)
                    /\ "success" \notin DOMAIN current_data.v[i].v) =>
                   ~results[i].success

----------------------------------------------------------------------------
(* Frame properties of the runs, checked under Spec *)

\* the fields of a PerformanceSummary that save_summary writes
SummaryFieldsWritten ==
    {"status", "avg_execution_time", "memory_usage", "regression_detected",
     "failed_benchmarks", "total_benchmarks", "recommendations"}

\* the summary in performance-summary.json is the one main holds and prints
SavedIsPrinted ==
    SummarySaved => \A f \in SummaryFieldsWritten : summary_file.v[f] = summary[f]

\* C26: once the inputs are loaded, no step of a run changes the loaded records,
\* the baseline records, the input data, the thresholds or the gate; a returned
\* result or summary is not changed afterwards; and the second call of
\* analyze_performance, in save_summary, writes the summary that the first call
\* returned to main.
C26_ReadOnlyAfterConstruction ==
    [][/\ pc # "start" =>
              UNCHANGED <<results, baseline_results, baseline_data, current_data,
                          thresholds, gate>>
       /\ result # NoData => result' = result
       /\ summary # NoData => summary' = summary
       /\ summary_file # NoData => summary_file' = summary_file
       /\ SavedIsPrinted']_vars

\* C26 witness: an analysis of three loaded records, against a loaded baseline
\* record, has analyzed, saved its summary and exited.
C26_Witness ==
    /\ SummarySaved
    /\ pc = "exited"
    /\ Len(results) = 3
    /\ Len(baseline_results) = 1
    /\ summary.status = "REGRESSION"
    /\ summary_file.v.status = "REGRESSION"

----------------------------------------------------------------------------
(* Agreement of the two detectors, checked under SpecCall *)

\* the fields that a RegressionResult and a ComparisonResult share
SharedFields(r) ==
    <<r.has_regression, r.execution_time_change, r.memory_change,
      r.failure_rate_change, r.recommendations>>

\* C27: on the same baseline input, current input and thresholds,
\* detect_regression and compare_performance return the same has_regression, the
\* same three changes and the same recommendation list, and the two
\* extract_metrics return the same tuple for the baseline and for the current
\* input.
C27_DetectorsAgree ==
    /\ (pc = "return" /\ prog = "Detector.detect_regression") =>
           /\ SharedFields(result) =
                  SharedFields(compare_performance(thresholds, baseline_data, current_data))
           /\ baseline_metrics = Comparator_extract_metrics(baseline_data)
           /\ current_metrics = Comparator_extract_metrics(current_data)
    /\ (pc = "return" /\ prog = "Comparator.compare_performance") =>
           /\ SharedFields(result) =
                  SharedFields(detect_regression(thresholds, baseline_data, current_data))
           /\ baseline_metrics = extract_metrics(baseline_data)
           /\ current_metrics = extract_metrics(current_data)

\* C27 witness: detect_regression returned a memory regression for a current
\* summary whose time change equals the threshold of 10 percent.
C27_Witness ==
    /\ pc = "return"
    /\ prog = "Detector.detect_regression"
    /\ result.execution_time_change = <<10, 1>>
    /\ ~result.execution_time_regression
    /\ result.memory_regression
    /\ current_metrics[4] >= thresholds.min_benchmarks

----------------------------------------------------------------------------
(* The all-failed baseline, checked under Spec *)

\* the baseline input is a list without a successful record
AllFailedBaseline ==
    /\ baseline_data.type = "list"
    /\ \A i \in 1..Len(baseline_data.v) : ~IsSuccessful(baseline_data.v[i])

\* the three thresholds of the run are not negative
NonNegativeThresholds ==
    /\ thresholds.execution_time_percent[1] >= 0
    /\ thresholds.memory_usage_percent[1] >= 0
    /\ thresholds.failure_rate_increase[1] >= 0

\* C28: when the baseline is a list with no successful record, the thresholds
\* are not negative and the current list has at least minBenchmarks successful
\* records, the detector returns hasRegression = false with the two percentage
\* changes 0.0, whatever the current time, memory and failure rate are.
C28_AllFailedBaselineNeverRegresses ==
    (Classified /\ AllFailedBaseline /\ NonNegativeThresholds
         /\ current_data.type = "list") =>
        /\ ~result.has_regression
        /\ result.execution_time_change = <<0, 1>>
        /\ result.memory_change = <<0, 1>>

\* C28 witness: detect_regression returned for a baseline of one failed record
\* and a current list with a successful record of positive time and memory and
\* a failed record.
C28_Witness ==
    /\ Classified
    /\ prog = "regression"
    /\ pc = "exited"
    /\ AllFailedBaseline
    /\ Len(baseline_data.v) = 1
    /\ NonNegativeThresholds
    /\ current_data.type = "list"
    /\ current_metrics[1][1] > 0
    /\ current_metrics[2][1] > 0
    /\ current_metrics[3][1] > 0
    /\ exit_code = 0

----------------------------------------------------------------------------
(* The analysis under the thresholds of its command line, checked under Spec *)

\* the analysis has a summary: analyze_performance returned to main
Analyzed == prog = "analysis" /\ summary # NoData

\* C29: under the thresholds that main builds (max_failed_benchmarks = 0), the
\* status is never PARTIAL: a run with a failed and a successful record has
\* regression_detected = true and status REGRESSION, and status PASS implies
\* failed_benchmarks = 0 and regression_detected = false.
C29_NoPartialFromCommandLine ==
    Analyzed =>
        /\ thresholds.max_failed_benchmarks = 0
        /\ summary.status # "PARTIAL"
        /\ (FailedIdx(results) # {} /\ SucceededIdx(results) # {}) =>
               /\ summary.regression_detected
               /\ summary.status = "REGRESSION"
        /\ summary.status = "PASS" =>
               /\ summary.failed_benchmarks = 0
               /\ ~summary.regression_detected

\* C29 witness: an analysis of one failed record and two successful records
\* within the absolute thresholds has exited with status REGRESSION, for the one
\* reason that a benchmark failed.
C29_Witness ==
    /\ Analyzed
    /\ pc = "exited"
    /\ Cardinality(FailedIdx(results)) = 1
    /\ Cardinality(SucceededIdx(results)) = 2
    /\ summary.status = "REGRESSION"
    /\ summary.recommendations = << <<"Too many failed benchmarks: ", 1, " > ", 0>> >>
    /\ exit_code = 1

----------------------------------------------------------------------------
(* The empty run through analysis and gate, checked under SpecPipeline *)

\* the analysis holds the summary of a run without records
EmptyRunAnalyzed == prog = "analysis" /\ summary # NoData /\ summary.status = "ERROR"

\* the gate has loaded the summary file of a run without records
EmptyRunLoaded == prog = "gate" /\ ~IsNone(summary) /\ summary.v.status = "ERROR"

\* the ceilings of the gate are not negative
NonNegativeCeilings ==
    /\ gate.max_execution_time_ms[1] >= 0
    /\ gate.max_memory_usage_mb[1] >= 0
    /\ gate.max_failure_rate[1] >= 0

\* C30: the summary of a run in which no benchmark record was found has status
\* ERROR, zero metrics, total_benchmarks = 0, failed_benchmarks = 0 and
\* regression_detected = false; the analysis exits 0 on it, check_gate returns
\* true on it for every gate with non-negative ceilings, and the gate run that
\* follows the analysis exits 0.
C30_EmptyRunPassesGate ==
    /\ EmptyRunAnalyzed =>
           /\ results = <<>>
           /\ summary.avg_execution_time = <<0, 1>>
           /\ summary.memory_usage = <<0, 1>>
           /\ summary.total_benchmarks = 0
           /\ summary.failed_benchmarks = 0
           /\ ~summary.regression_detected
           /\ pc = "exited" => exit_code = 0
    /\ (EmptyRunLoaded /\ NonNegativeCeilings) =>
           /\ pc \in {"loaded", "checked", "exited"}
           /\ pc \in {"loaded", "checked"} => exit_code = 0
           /\ pc = "checked" => gate_passed
           /\ pc = "exited" => (gate_passed /\ exit_code = 0)

\* C30 witness: the gate with ceilings of 0 has exited after an analysis that
\* found an empty result list, and the log holds the status ERROR of the
\* analysis and the PASS line of the gate.
C30_Witness ==
    /\ EmptyRunLoaded
    /\ pc = "exited"
    /\ current_data = List(<<>>)
    /\ gate.max_execution_time_ms = <<0, 1>>
    /\ gate.max_memory_usage_mb = <<0, 1>>
    /\ gate.max_failure_rate = <<0, 1>>
    /\ gate_passed
    /\ exit_code = 0
    /\ "Status: ERROR" \in Printed
    /\ "PASS: All performance gates passed" \in Printed

====
